---------------------------- MODULE Spec2Model ----------------------------
(***************************************************************************)
(* A model of the VIP / VIPTR text-recognition code of doctr:              *)
(*   - the window partition / merge index arithmetic (img2windows,         *)
(*     windows2img) of the cross-shaped window attention,                   *)
(*   - the data flow of LePEAttention.forward and of the cross-shaped       *)
(*     window block,                                                         *)
(*   - the shape arithmetic of the VIPTRNet encoder,                        *)
(*   - the control flow of VIPTR.forward.                                   *)
(* Tensors are modelled by value: a shape and the elements in contiguous    *)
(* row-major order.  A failed torch call (a RuntimeError raised by view or  *)
(* reshape) is the tensor ShapeError.                                       *)
(***************************************************************************)
EXTENDS Integers, Sequences, FiniteSets, TLC

VARIABLES
    pc,        \* position of the modelled call
    impl,      \* which of the two copies of the code is run
    img,       \* windowing: the (b, c, h, w) feature map
    h_sp,      \* windowing: window height
    w_sp,      \* windowing: window width
    height,    \* windowing: the h argument of windows2img
    width,     \* windowing: the w argument of windows2img
    windows,   \* windowing: the (b', h_sp*w_sp, c) window stack
    merged,    \* windowing: the result of windows2img
    attn_cfg,  \* attention: b, h, w of the call and idx, split_size, num_heads, dim of the mixer
    attn_out,  \* attention: the (b, h*w, c) result, each element the set of inputs it is computed from
    enc_in,    \* encoder: shape (b, c, h, w) of the input image batch
    enc_x,     \* encoder: shape of the current feature map
    enc_size,  \* encoder: the (H, W) that forward_features passes to the next stage
    enc_stage, \* encoder: index of the next stage
    enc_sizes, \* encoder: the feature-map shapes the stages were entered with
    fwd,       \* recognition: the model's flags and the arguments of the call of forward
    calls,     \* recognition: the components forward has called so far, in order
    out,       \* recognition: the keys of the result dictionary so far
    err,       \* recognition: the message of the error forward raised, "" if none
    rec_in,    \* recognition helpers: the object's configuration and the arguments of the call
    rec_out    \* recognition helpers: the outcomes of the calls made so far, in order

vars == <<pc, impl, img, h_sp, w_sp, height, width, windows, merged, attn_cfg, attn_out,
          enc_in, enc_x, enc_size, enc_stage, enc_sizes, fwd, calls, out, err,
          rec_in, rec_out>>

winVars == <<img, h_sp, w_sp, height, width, windows, merged>>
attnVars == <<attn_cfg, attn_out>>
encVars == <<enc_in, enc_x, enc_size, enc_stage, enc_sizes>>

\* The state of the parts a specification does not run
WinIdle ==
    /\ img = [ok |-> FALSE, shape |-> <<0>>, data |-> <<>>]
    /\ h_sp = 0 /\ w_sp = 0 /\ height = 0 /\ width = 0
    /\ windows = [ok |-> FALSE, shape |-> <<0>>, data |-> <<>>]
    /\ merged = [ok |-> FALSE, shape |-> <<0>>, data |-> <<>>]

AttnIdle ==
    /\ attn_cfg = [b |-> 0, h |-> 0, w |-> 0, idx |-> 0, split_size |-> 0, num_heads |-> 0, dim |-> 0]
    /\ attn_out = [ok |-> FALSE, shape |-> <<0>>, data |-> <<>>]

EncIdle ==
    /\ enc_in = <<>> /\ enc_x = <<>> /\ enc_size = <<>> /\ enc_stage = 0 /\ enc_sizes = <<>>

fwdVars == <<fwd, calls, out, err>>

FwdIdle ==
    /\ fwd = [variant |-> "", training |-> FALSE, exportable |-> FALSE, target |-> "None",
              return_model_output |-> FALSE, return_preds |-> FALSE, head_in_extractor |-> FALSE]
    /\ calls = <<>> /\ out = {} /\ err = ""

recVars == <<rec_in, rec_out>>

RecIdle == rec_in = <<>> /\ rec_out = <<>>

---------------------------------------------------------------------------
(* Bounds of the model *)

MaxB == 2
MaxC == 2
MaxSide == 4
MaxWin == 3
MaxHeads == 2
MaxHeadDim == 2
MaxImgH == 32
MaxImgW == 128
MaxT == 3
MaxCalls == 2
MaxLabels == 2
MaxLength == 2
MaxEmbed == 4
MaxLayers == 4
MaxCells == 6
---------------------------------------------------------------------------
(* Tensors by value *)

\* A sequence given as a function, as the tuple of its values.
Table(f) == f \o <<>>

RECURSIVE Prod(_)
Prod(s) == IF Len(s) = 0 THEN 1 ELSE Head(s) * Prod(Tail(s))

RECURSIVE SumSeq(_)
SumSeq(s) == IF Len(s) = 0 THEN 0 ELSE Head(s) + SumSeq(Tail(s))

\* Row-major strides of a shape.
Strides(shape) == Table([k \in 1..Len(shape) |-> Prod(SubSeq(shape, k + 1, Len(shape)))])

\* Flat (0-based) offset of a (0-based) multi-index.
Ravel(shape, idx) ==
    LET st == Strides(shape)
    IN  SumSeq([k \in 1..Len(shape) |-> idx[k] * st[k]])

ShapeError == [ok |-> FALSE, shape |-> <<>>, data |-> <<>>]

Tensor(shape, data) == [ok |-> TRUE, shape |-> shape, data |-> Table(data)]

\* The element of t at a (0-based) multi-index.
At(t, idx) == t.data[Ravel(t.shape, idx) + 1]

\* A tensor whose elements are their own flat offsets: all distinct, so that
\* a pure re-arrangement of it shows where every element went.
Iota(shape) == Tensor(shape, [f \in 1..Prod(shape) |-> f - 1])

\* torch.Tensor.view / reshape to an explicit shape: the element count must
\* be kept, the contiguous order is.
View(t, shape) ==
    IF ~t.ok THEN ShapeError
    ELSE IF Prod(shape) # Len(t.data) THEN ShapeError
    ELSE Tensor(shape, t.data)

\* view / reshape with one dimension given as -1: it is inferred from the
\* element count, which the other dimensions must divide; a product of 0 of
\* the other dimensions is refused.
ViewInfer(t, shape) ==
    LET known == Prod([k \in 1..Len(shape) |-> IF shape[k] = -1 THEN 1 ELSE shape[k]])
        n     == Len(t.data)
    IN  IF ~t.ok THEN ShapeError
        ELSE IF known = 0 THEN ShapeError
        ELSE IF n % known # 0 THEN ShapeError
        ELSE Tensor([k \in 1..Len(shape) |->
                        IF shape[k] = -1 THEN n \div known ELSE shape[k]], t.data)

\* torch.Tensor.permute(dims).contiguous(): dims are 0-based; dimension k of
\* the result is dimension dims[k] of the input.
Permute(t, dims) ==
    IF ~t.ok THEN ShapeError
    ELSE
        LET n      == Len(dims)
            nshape == [k \in 1..n |-> t.shape[dims[k] + 1]]
            ost    == Strides(t.shape)
            nst    == Strides(nshape)
            term(k, f) == IF k > n THEN 0
                          ELSE ((f \div nst[k]) % nshape[k]) * ost[dims[k] + 1]
            src(f) == term(1, f) + term(2, f) + term(3, f)
                        + term(4, f) + term(5, f) + term(6, f)
        IN  Tensor(nshape, [f \in 1..Len(t.data) |-> t.data[src(f - 1) + 1]])

---------------------------------------------------------------------------
(* Window partition and merge *)

\* Mutant: the windows are stacked column by column instead of row by row.
img2windows_colmajor(t, H_sp, W_sp) ==
    LET B == t.shape[1]
        C == t.shape[2]
        H == t.shape[3]
        W == t.shape[4]
        img_reshape == View(t, <<B, C, H \div H_sp, H_sp, W \div W_sp, W_sp>>)
    IN  ViewInfer(Permute(img_reshape, <<0, 4, 2, 3, 5, 1>>), <<-1, H_sp * W_sp, C>>)

\* img2windows of classification/vip/pytorch.py
img2windows(t, H_sp, W_sp) ==
    LET B == t.shape[1]
        C == t.shape[2]
        H == t.shape[3]
        W == t.shape[4]
        img_reshape == View(t, <<B, C, H \div H_sp, H_sp, W \div W_sp, W_sp>>)
        img_perm    == ViewInfer(Permute(img_reshape, <<0, 2, 4, 3, 5, 1>>),
                                 <<-1, H_sp * W_sp, C>>)
    IN  img_perm

\* Mutant: the batch dimension of the first view is inferred (-1), so rows or
\* columns that do not fill a window are regrouped instead of refused.
LePE_img2windows_infer(t, hsp, wsp) ==
    LET c == t.shape[2]
        h == t.shape[3]
        w == t.shape[4]
        img_reshape == ViewInfer(t, <<-1, c, h \div hsp, hsp, w \div wsp, wsp>>)
    IN  ViewInfer(Permute(img_reshape, <<0, 2, 4, 3, 5, 1>>), <<-1, hsp * wsp, c>>)

\* LePEAttention.img2windows of classification/vip/layers/pytorch.py
LePE_img2windows(t, hsp, wsp) ==
    LET b == t.shape[1]
        c == t.shape[2]
        h == t.shape[3]
        w == t.shape[4]
        img_reshape == View(t, <<b, c, h \div hsp, hsp, w \div wsp, wsp>>)
    IN  ViewInfer(Permute(img_reshape, <<0, 2, 4, 3, 5, 1>>), <<-1, hsp * wsp, c>>)

\* int(n / (h * w / hsp / wsp)) in IEEE-754 double arithmetic.  The quotient
\* h*w/hsp/wsp is not always representable; where the exact value of
\* n*hsp*wsp/(h*w) is an integer q, the double result can be just below q
\* and int() then gives q - 1.  For sizes up to 5 this happens exactly for
\* hsp = 3, wsp = 5 and h*w in {5, 10, 20}; everywhere else the result is the
\* exact floor.
FloatShortfall(n, hw, hsp, wsp) ==
    /\ hsp = 3 /\ wsp = 5 /\ hw \in {5, 10, 20}
    /\ (n * hsp * wsp) % hw = 0
    /\ n > 0

BatchMerged(n, h, w, hsp, wsp) ==
    LET q == (n * hsp * wsp) \div (h * w)
    IN  IF FloatShortfall(n, h * w, hsp, wsp) THEN q - 1 ELSE q

\* Mutant: the window rows are not interleaved back (the permute is left out).
windows2img_noperm(img_splits_hw, H_sp, W_sp, H, W) ==
    LET B == BatchMerged(img_splits_hw.shape[1], H, W, H_sp, W_sp)
        v == ViewInfer(img_splits_hw, <<B, H \div H_sp, W \div W_sp, H_sp, W_sp, -1>>)
    IN  ViewInfer(v, <<B, H, W, -1>>)

\* windows2img of classification/vip/pytorch.py
windows2img(img_splits_hw, H_sp, W_sp, H, W) ==
    LET B    == BatchMerged(img_splits_hw.shape[1], H, W, H_sp, W_sp)
        v    == ViewInfer(img_splits_hw, <<B, H \div H_sp, W \div W_sp, H_sp, W_sp, -1>>)
        perm == Permute(v, <<0, 1, 3, 2, 4, 5>>)
    IN  ViewInfer(perm, <<B, H, W, -1>>)

\* LePEAttention.windows2img of classification/vip/layers/pytorch.py
LePE_windows2img(img_splits_hw, hsp, wsp, h, w) ==
    LET b_merged == BatchMerged(img_splits_hw.shape[1], h, w, hsp, wsp)
        v        == ViewInfer(img_splits_hw, <<b_merged, h \div hsp, w \div wsp, hsp, wsp, -1>>)
    IN  ViewInfer(Permute(v, <<0, 1, 3, 2, 4, 5>>), <<b_merged, h, w, -1>>)

Impls == {"vip", "layers"}

Partition(i, t, hsp, wsp) ==
    IF i = "vip" THEN img2windows(t, hsp, wsp) ELSE LePE_img2windows(t, hsp, wsp)

Merge(i, t, hsp, wsp, h, w) ==
    IF i = "vip" THEN windows2img(t, hsp, wsp, h, w)
    ELSE LePE_windows2img(t, hsp, wsp, h, w)

NoTensor == [ok |-> FALSE, shape |-> <<0>>, data |-> <<>>]

---------------------------------------------------------------------------
(* Specification SpecWin: a feature map is partitioned, then merged back *)

InitWin ==
    /\ pc = "start"
    /\ impl \in Impls
    /\ \E b \in 1..MaxB, c \in 1..MaxC, h \in 1..MaxSide, w \in 1..MaxSide :
          /\ img = Iota(<<b, c, h, w>>)
          /\ height = h
          /\ width = w
    /\ h_sp \in 1..MaxSide
    /\ w_sp \in 1..MaxSide
    /\ windows = NoTensor
    /\ merged = NoTensor
    /\ AttnIdle
    /\ EncIdle
    /\ FwdIdle
    /\ RecIdle

DoPartition ==
    /\ pc = "start"
    /\ windows' = Partition(impl, img, h_sp, w_sp)
    /\ pc' = IF windows'.ok THEN "partitioned" ELSE "raised"
    /\ UNCHANGED <<impl, img, h_sp, w_sp, height, width, merged, attnVars, encVars, fwdVars, recVars>>

DoMerge ==
    /\ pc = "partitioned"
    /\ merged' = Merge(impl, windows, h_sp, w_sp, height, width)
    /\ pc' = IF merged'.ok THEN "merged" ELSE "raised"
    /\ UNCHANGED <<impl, img, h_sp, w_sp, height, width, windows, attnVars, encVars, fwdVars, recVars>>

NextWin == DoPartition \/ DoMerge

SpecWin == InitWin /\ [][NextWin]_vars

---------------------------------------------------------------------------
(* Specification SpecMerge: windows2img on an arbitrary window stack *)

InitMerge ==
    /\ pc = "windows"
    /\ impl \in Impls
    /\ img = NoTensor
    /\ h_sp \in 1..MaxWin
    /\ w_sp \in 1..MaxWin
    /\ height \in 1..MaxWin
    /\ width \in 1..MaxWin
    /\ \E n \in 1..MaxWin, c \in 1..MaxC :
          windows = Iota(<<n, h_sp * w_sp, c>>)
    /\ merged = NoTensor
    /\ AttnIdle
    /\ EncIdle
    /\ FwdIdle
    /\ RecIdle

DoMergeAny ==
    /\ pc = "windows"
    /\ merged' = Merge(impl, windows, h_sp, w_sp, height, width)
    /\ pc' = IF merged'.ok THEN "merged" ELSE "raised"
    /\ UNCHANGED <<impl, img, h_sp, w_sp, height, width, windows, attnVars, encVars, fwdVars, recVars>>

NextMerge == DoMergeAny

SpecMerge == InitMerge /\ [][NextMerge]_vars

---------------------------------------------------------------------------
(* Claims about the windowing utilities *)

Divisible == height % h_sp = 0 /\ width % w_sp = 0

ImgIndices ==
    { <<b, c, i, j>> : b \in 0..(img.shape[1] - 1), c \in 0..(img.shape[2] - 1),
                       i \in 0..(height - 1), j \in 0..(width - 1) }

\* C1: for a window size dividing the feature map, img2windows followed by
\* windows2img raises nothing and gives back the feature map in channel-last
\* layout (b, h, w, c), element for element, with the batch size recovered.
C1_RoundTrip ==
    Divisible =>
        /\ pc # "raised"
        /\ pc = "merged" =>
              /\ merged.shape = <<img.shape[1], height, width, img.shape[2]>>
              /\ \A x \in ImgIndices :
                    At(merged, <<x[1], x[3], x[4], x[2]>>) = At(img, x)

C1_Witness ==
    /\ pc = "merged"
    /\ img.shape[1] = 2 /\ img.shape[2] = 2
    /\ h_sp = 2 /\ height = 4
    /\ w_sp = 1 /\ width = 3

\* C2: img2windows returns (b*(h/h_sp)*(w/w_sp), h_sp*w_sp, c); element
\* (b, c, i, j) of the input is at window b*nH*nW + (i div h_sp)*nW +
\* (j div w_sp), token (i mod h_sp)*w_sp + (j mod w_sp), channel c.
C2_WindowLayout ==
    pc = "partitioned" =>
        LET nH == height \div h_sp
            nW == width \div w_sp
        IN  /\ windows.shape = <<img.shape[1] * nH * nW, h_sp * w_sp, img.shape[2]>>
            /\ \A x \in ImgIndices :
                  At(windows, << x[1] * nH * nW + (x[3] \div h_sp) * nW + (x[4] \div w_sp),
                                 (x[3] % h_sp) * w_sp + (x[4] % w_sp),
                                 x[2] >>) = At(img, x)

C2_Witness ==
    /\ pc = "partitioned"
    /\ img.shape[1] = 2 /\ img.shape[2] = 2
    /\ height = 4 /\ h_sp = 2
    /\ width = 4 /\ w_sp = 2

\* C3: img2windows raises, and returns no windows, whenever the window size
\* does not divide the (non-empty) feature map, a window larger than the map
\* included.
C3_PartitionRejects ==
    ~Divisible => /\ ~windows.ok
                  /\ pc \in {"start", "raised"}

C3_Witness ==
    /\ pc = "raised"
    /\ ~windows.ok
    /\ h_sp > height
    /\ width % w_sp = 0

\* C4: windows2img raises whenever h % h_sp # 0 or w % w_sp # 0, whatever
\* the number of windows and of channels.
C4_MergeRejects ==
    ~Divisible => ~merged.ok

---------------------------------------------------------------------------
(* Cross-shaped window attention with LePE.                                *)
(* The arithmetic of attention is real-valued; what is modelled is its data *)
(* flow.  An element of a tensor is the set of input elements (flat offsets *)
(* into the (b, n, c) input) it is computed from: a re-arrangement moves    *)
(* the sets, a sum, product, softmax or convolution unites the sets of its  *)
(* operands.                                                                 *)

\* The (b, n, c) input of a mixer: every element is computed from itself.
Atoms(b, n, c) == Tensor(<<b, n, c>>, [f \in 1..(b * n * c) |-> {f - 1}])

\* Mutant: _get_split with the two strip orientations exchanged.
LePE_get_split_swapped(idx, split_size, h, w) ==
    IF idx = -1 THEN [ok |-> TRUE, h_sp |-> h, w_sp |-> w]
    ELSE IF idx = 0 THEN [ok |-> TRUE, h_sp |-> split_size, w_sp |-> w]
    ELSE IF idx = 1 THEN [ok |-> TRUE, h_sp |-> h, w_sp |-> split_size]
    ELSE [ok |-> FALSE, h_sp |-> 0, w_sp |-> 0]

\* LePEAttention._get_split of layers/pytorch.py; any other idx raises
\* ValueError.
LePE_get_split(idx, split_size, h, w) ==
    IF idx = -1 THEN [ok |-> TRUE, h_sp |-> h, w_sp |-> w]
    ELSE IF idx = 0 THEN [ok |-> TRUE, h_sp |-> h, w_sp |-> split_size]
    ELSE IF idx = 1 THEN [ok |-> TRUE, h_sp |-> split_size, w_sp |-> w]
    ELSE [ok |-> FALSE, h_sp |-> 0, w_sp |-> 0]

\* Mutant: the two strip orientations are exchanged.
vip_split_swapped(idx, split_size, H, W) ==
    IF idx = -1 THEN [ok |-> TRUE, h_sp |-> H, w_sp |-> W]
    ELSE IF idx = 0 THEN [ok |-> TRUE, h_sp |-> split_size, w_sp |-> W]
    ELSE IF idx = 1 THEN [ok |-> TRUE, h_sp |-> H, w_sp |-> split_size]
    ELSE [ok |-> FALSE, h_sp |-> 0, w_sp |-> 0]

\* The if / elif chain of LePEAttention.forward, im2cswin and get_lepe of
\* classification/vip/pytorch.py; with any other idx H_sp and W_sp stay
\* unbound and their first use raises UnboundLocalError.
vip_split(idx, split_size, H, W) ==
    IF idx = -1 THEN [ok |-> TRUE, h_sp |-> H, w_sp |-> W]
    ELSE IF idx = 0 THEN [ok |-> TRUE, h_sp |-> H, w_sp |-> split_size]
    ELSE IF idx = 1 THEN [ok |-> TRUE, h_sp |-> split_size, w_sp |-> W]
    ELSE [ok |-> FALSE, h_sp |-> 0, w_sp |-> 0]

GetSplit(i, cfg) ==
    IF i = "vip" THEN vip_split(cfg.idx, cfg.split_size, cfg.h, cfg.w)
    ELSE LePE_get_split(cfg.idx, cfg.split_size, cfg.h, cfg.w)

\* x.transpose(-2, -1).contiguous().view(b, c, h, w) of a (b, n, c) tensor
ToImage(x, cfg) ==
    View(Permute(x, <<0, 2, 1>>), <<x.shape[1], x.shape[3], cfg.h, cfg.w>>)

\* LePEAttention.im2cswin: Q and K as (b', num_heads, h_sp*w_sp, c/num_heads)
im2cswin(i, x, cfg) ==
    LET sp   == GetSplit(i, cfg)
        c    == x.shape[3]
        image == ToImage(x, cfg)
        wnd  == Partition(i, image, sp.h_sp, sp.w_sp)
    IN  IF ~sp.ok \/ ~image.ok THEN ShapeError
        ELSE Permute(ViewInfer(wnd, <<-1, sp.h_sp * sp.w_sp, cfg.num_heads,
                                      c \div cfg.num_heads>>),
                     <<0, 2, 1, 3>>)

\* nn.Conv2d(dim, dim, kernel_size=3, stride=1, padding=1, groups=dim) on a
\* (n, c, h, w) tensor: each channel is convolved on its own, and a pixel
\* outside the tensor is zero.
get_v(x) ==
    IF ~x.ok THEN ShapeError
    ELSE
        LET hh == x.shape[3]
            ww == x.shape[4]
            Max(u, v) == IF u > v THEN u ELSE v
            Min(u, v) == IF u < v THEN u ELSE v
            nb(f) == (Max(0, ((f \div ww) % hh) - 1)..Min(hh - 1, ((f \div ww) % hh) + 1))
                        \X (Max(0, (f % ww) - 1)..Min(ww - 1, (f % ww) + 1))
        IN  Tensor(x.shape,
                   [f \in 1..Len(x.data) |->
                       UNION { x.data[(((f - 1) \div (hh * ww)) * hh + p[1]) * ww + p[2] + 1] :
                                 p \in nb(f - 1) }])

\* The windows of V as (b', c, h_sp, w_sp): the first half of get_lepe
lepe_windows(i, x, cfg) ==
    LET sp    == GetSplit(i, cfg)
        b     == x.shape[1]
        c     == x.shape[3]
        image == ToImage(x, cfg)
        v6    == View(image, <<b, c, cfg.h \div sp.h_sp, sp.h_sp, cfg.w \div sp.w_sp, sp.w_sp>>)
    IN  IF ~sp.ok \/ ~image.ok THEN ShapeError
        ELSE ViewInfer(Permute(v6, <<0, 2, 4, 1, 3, 5>>), <<-1, c, sp.h_sp, sp.w_sp>>)

\* Mutant: the windows of V are read token-major, without the permute.
ToHeads_tokenmajor(t, sp, cfg) ==
    IF ~t.ok THEN ShapeError
    ELSE ViewInfer(t, <<-1, cfg.num_heads, sp.h_sp * sp.w_sp,
                        t.shape[2] \div cfg.num_heads>>)

\* reshape(-1, num_heads, c // num_heads, h_sp * w_sp).permute(0, 1, 3, 2)
ToHeads(t, sp, cfg) ==
    IF ~t.ok THEN ShapeError
    ELSE Permute(ViewInfer(t, <<-1, cfg.num_heads, t.shape[2] \div cfg.num_heads,
                                sp.h_sp * sp.w_sp>>),
                 <<0, 1, 3, 2>>)

\* Mutant: the depthwise convolution runs on the whole feature map and the
\* result is cut into windows afterwards.
get_lepe_wholemap(i, x, cfg) ==
    LET sp    == GetSplit(i, cfg)
        b     == x.shape[1]
        c     == x.shape[3]
        xw    == lepe_windows(i, x, cfg)
        conv  == get_v(ToImage(x, cfg))
        c6    == View(conv, <<b, c, cfg.h \div sp.h_sp, sp.h_sp, cfg.w \div sp.w_sp, sp.w_sp>>)
        lw    == ViewInfer(Permute(c6, <<0, 2, 4, 1, 3, 5>>), <<-1, c, sp.h_sp, sp.w_sp>>)
    IN  [x |-> ToHeads(xw, sp, cfg), lepe |-> ToHeads(lw, sp, cfg)]

\* LePEAttention.get_lepe: V and its LePE term, both as
\* (b', num_heads, h_sp*w_sp, c/num_heads)
get_lepe(i, x, cfg) ==
    LET sp == GetSplit(i, cfg)
        xw == lepe_windows(i, x, cfg)
    IN  [x |-> ToHeads(xw, sp, cfg), lepe |-> ToHeads(get_v(xw), sp, cfg)]

\* q @ k.transpose(-2, -1) of two (b', heads, n, d) tensors: entry (t1, t2)
\* is computed from row t1 of q and row t2 of k.
MatMulT(q, k) ==
    LET n == q.shape[3]
        d == q.shape[4]
        qrow == Table([r \in 1..(q.shape[1] * q.shape[2] * n) |->
                    UNION { q.data[(r - 1) * d + e] : e \in 1..d }])
        krow == Table([r \in 1..(q.shape[1] * q.shape[2] * n) |->
                    UNION { k.data[(r - 1) * d + e] : e \in 1..d }])
    IN  Tensor(<<q.shape[1], q.shape[2], n, n>>,
               [f \in 1..(q.shape[1] * q.shape[2] * n * n) |->
                   LET g  == (f - 1) \div (n * n)
                       t1 == ((f - 1) \div n) % n
                       t2 == (f - 1) % n
                   IN  qrow[g * n + t1 + 1] \cup krow[g * n + t2 + 1]])

\* softmax(attn, dim=-1): every weight of a row is computed from the whole row
Softmax(a) ==
    LET n == a.shape[4]
        row == Table([r \in 1..(Len(a.data) \div n) |->
                   UNION { a.data[(r - 1) * n + t] : t \in 1..n }])
    IN  Tensor(a.shape, [f \in 1..Len(a.data) |-> row[((f - 1) \div n) + 1]])

\* attn @ v of a (b', heads, n, n) and a (b', heads, n, d) tensor: entry
\* (t1, e) is computed from row t1 of attn and column e of v.
MatMul(a, v) ==
    LET n == v.shape[3]
        d == v.shape[4]
        arow == Table([r \in 1..(v.shape[1] * v.shape[2] * n) |->
                    UNION { a.data[(r - 1) * n + t2] : t2 \in 1..n }])
        vcol == Table([r \in 1..(v.shape[1] * v.shape[2] * d) |->
                    UNION { v.data[(((r - 1) \div d) * n + t2) * d + ((r - 1) % d) + 1] :
                               t2 \in 0..(n - 1) }])
    IN  Tensor(v.shape,
               [f \in 1..Len(v.data) |->
                   LET g  == (f - 1) \div (n * d)
                       t1 == ((f - 1) \div d) % n
                       e  == (f - 1) % d
                   IN  arow[g * n + t1 + 1] \cup vcol[g * d + e + 1]])

Add(x, y) == Tensor(x.shape, [f \in 1..Len(x.data) |-> x.data[f] \cup y.data[f]])

\* Mutant: the heads are merged without exchanging them with the tokens.
RestoreLayout_headsfirst(i, x, b, cfg) ==
    LET sp == GetSplit(i, cfg)
        xt == ViewInfer(x, <<-1, sp.h_sp * sp.w_sp, cfg.dim>>)
    IN  ViewInfer(Merge(i, xt, sp.h_sp, sp.w_sp, cfg.h, cfg.w), <<b, -1, cfg.dim>>)

\* The end of LePEAttention.forward on x of shape
\* (b', num_heads, h_sp * w_sp, c // num_heads):
\* x.transpose(1, 2).reshape(-1, h_sp * w_sp, c), windows2img, view(b, -1, c)
RestoreLayout(i, x, b, cfg) ==
    LET sp == GetSplit(i, cfg)
        xt == ViewInfer(Permute(x, <<0, 2, 1, 3>>), <<-1, sp.h_sp * sp.w_sp, cfg.dim>>)
    IN  ViewInfer(Merge(i, xt, sp.h_sp, sp.w_sp, cfg.h, cfg.w), <<b, -1, cfg.dim>>)

\* LePEAttention.forward on q, k, v of shape (b, n, c)
LePEForward(i, q, k, v, cfg) ==
    LET sp   == GetSplit(i, cfg)
        b    == q.shape[1]
        c    == q.shape[3]
        qw   == im2cswin(i, q, cfg)
        kw   == im2cswin(i, k, cfg)
        vl   == get_lepe(i, v, cfg)
        attn == Softmax(MatMulT(qw, kw))
        x    == Add(MatMul(attn, vl.x), vl.lepe)
    IN  IF ~sp.ok \/ ~qw.ok \/ ~kw.ok \/ ~vl.x.ok \/ ~vl.lepe.ok THEN ShapeError
        ELSE RestoreLayout(i, x, b, cfg)

Idxs == {-1, 0, 1, 2}

---------------------------------------------------------------------------
(* Specification SpecLePE: one call of LePEAttention.forward *)

InitLePE ==
    /\ pc = "mixer"
    /\ impl \in Impls
    /\ \E b \in 1..MaxB, h \in 1..MaxWin, w \in 1..MaxWin, idx \in Idxs,
          s \in 1..MaxWin, m \in 1..MaxHeads, d \in 1..MaxHeadDim :
          attn_cfg = [b |-> b, h |-> h, w |-> w, idx |-> idx, split_size |-> s,
                      num_heads |-> m, dim |-> m * d]
    /\ attn_out = NoTensor
    /\ WinIdle
    /\ EncIdle
    /\ FwdIdle
    /\ RecIdle

DoLePEForward ==
    /\ pc = "mixer"
    /\ LET x == Atoms(attn_cfg.b, attn_cfg.h * attn_cfg.w, attn_cfg.dim)
       IN  attn_out' = LePEForward(impl, x, x, x, attn_cfg)
    /\ pc' = IF attn_out'.ok THEN "attended" ELSE "raised"
    /\ UNCHANGED <<impl, attn_cfg, winVars, encVars, fwdVars, recVars>>

NextLePE == DoLePEForward

SpecLePE == InitLePE /\ [][NextLePE]_vars

\* The window an input element lies in under the split geometry of the
\* mixer: (sample, window row, window column).
WindowOf(e, cfg, sp) ==
    LET tok == e \div cfg.dim
        t   == tok % (cfg.h * cfg.w)
    IN  << tok \div (cfg.h * cfg.w), (t \div cfg.w) \div sp.h_sp, (t % cfg.w) \div sp.w_sp >>

\* C5: every element of the output of LePEAttention.forward is computed only
\* from Q, K, V elements of tokens of its own window and sample (attention
\* and LePE term alike), so two inputs that agree on a window agree on the
\* output of that window.
C5_NoCrossWindow ==
    pc = "attended" =>
        /\ attn_out.shape = <<attn_cfg.b, attn_cfg.h * attn_cfg.w, attn_cfg.dim>>
        /\ \A f \in 1..Len(attn_out.data) : \A e \in attn_out.data[f] :
              WindowOf(e, attn_cfg, GetSplit(impl, attn_cfg))
                  = WindowOf(f - 1, attn_cfg, GetSplit(impl, attn_cfg))

C5_Witness ==
    /\ pc = "attended"
    /\ attn_cfg.b = 2 /\ attn_cfg.idx = 0 /\ attn_cfg.h = 2
    /\ attn_cfg.w = 3 /\ attn_cfg.split_size = 1
    /\ attn_cfg.num_heads = 2
    /\ Cardinality(attn_out.data[1]) > 1

---------------------------------------------------------------------------
(* The cross-shaped window block: CSWinBlock (classification/vip/pytorch.py) *)
(* and CrossShapedWindowAttention (layers/pytorch.py).  The elements of the  *)
(* projected q, k, v of shape (b, n, c) are the inputs the data flow is      *)
(* traced to.                                                                 *)

\* t[:, :, lo:hi] of a (b, n, c) tensor
SliceLast(t, lo, hi) ==
    LET c == t.shape[3]
    IN  Tensor(<<t.shape[1], t.shape[2], hi - lo>>,
               [f \in 1..(t.shape[1] * t.shape[2] * (hi - lo)) |->
                   t.data[((f - 1) \div (hi - lo)) * c + lo + ((f - 1) % (hi - lo)) + 1]])

\* torch.cat([x1, x2], dim=2) of two (b, n, c) tensors
CatLast(x1, x2) ==
    LET c1 == x1.shape[3]
        c2 == x2.shape[3]
    IN  IF ~x1.ok \/ ~x2.ok THEN ShapeError
        ELSE IF x1.shape[1] # x2.shape[1] \/ x1.shape[2] # x2.shape[2] THEN ShapeError
        ELSE Tensor(<<x1.shape[1], x1.shape[2], c1 + c2>>,
                    [f \in 1..(Len(x1.data) + Len(x2.data)) |->
                        LET tok == (f - 1) \div (c1 + c2)
                            ch  == (f - 1) % (c1 + c2)
                        IN  IF ch < c1 THEN x1.data[tok * c1 + ch + 1]
                            ELSE x2.data[tok * c2 + (ch - c1) + 1]])

\* The mixer attns[i] of a block: LePEAttention(dim // 2, idx=i,
\* split_size=split_size, num_heads=num_heads // 2)
BranchCfg(cfg, i) ==
    [cfg EXCEPT !.idx = i, !.dim = cfg.dim \div 2, !.num_heads = cfg.num_heads \div 2]

\* The attention half of CSWinBlock.forward / CrossShapedWindowAttention
\* .forward: x1 = attns[0](qkv[..., :c//2]), x2 = attns[1](qkv[..., c//2:]),
\* concatenated on the channel axis.
BlockAttention(i, qkv, cfg) ==
    LET c    == qkv.shape[3]
        lo   == SliceLast(qkv, 0, c \div 2)
        hi   == SliceLast(qkv, c \div 2, c)
        x1   == LePEForward(i, lo, lo, lo, BranchCfg(cfg, 0))
        x2   == LePEForward(i, hi, hi, hi, BranchCfg(cfg, 1))
    IN  CatLast(x1, x2)

---------------------------------------------------------------------------
(* Specification SpecBlock: the two mixers of one cross-shaped window block *)

InitBlock ==
    /\ pc = "block"
    /\ impl \in Impls
    /\ \E b \in 1..MaxB, h \in 1..MaxWin, w \in 1..MaxWin,
          s \in 1..MaxWin, m \in 1..MaxHeads, d \in 1..MaxHeadDim :
          attn_cfg = [b |-> b, h |-> h, w |-> w, idx |-> -1, split_size |-> s,
                      num_heads |-> 2 * m, dim |-> 2 * m * d]
    /\ attn_out = NoTensor
    /\ WinIdle
    /\ EncIdle
    /\ FwdIdle
    /\ RecIdle

DoBlockAttention ==
    /\ pc = "block"
    /\ attn_out' = BlockAttention(impl, Atoms(attn_cfg.b, attn_cfg.h * attn_cfg.w, attn_cfg.dim),
                                  attn_cfg)
    /\ pc' = IF attn_out'.ok THEN "block_done" ELSE "raised"
    /\ UNCHANGED <<impl, attn_cfg, winVars, encVars, fwdVars, recVars>>

NextBlock == DoBlockAttention

SpecBlock == InitBlock /\ [][NextBlock]_vars

\* The tokens (sample, row, column) the elements of a set of inputs belong to
TokensOf(deps, cfg) ==
    { << (e \div cfg.dim) \div (cfg.h * cfg.w),
         ((e \div cfg.dim) % (cfg.h * cfg.w)) \div cfg.w,
         ((e \div cfg.dim) % (cfg.h * cfg.w)) % cfg.w >> : e \in deps }

\* The strip of split_size rows and full width around a token
HorizontalStrip(tok, cfg) ==
    { <<tok[1], i, j>> : i \in { r \in 0..(cfg.h - 1) :
                                    r \div cfg.split_size = tok[2] \div cfg.split_size },
                         j \in 0..(cfg.w - 1) }

\* The strip of full height and split_size columns around a token
VerticalStrip(tok, cfg) ==
    { <<tok[1], i, j>> : i \in 0..(cfg.h - 1),
                         j \in { r \in 0..(cfg.w - 1) :
                                    r \div cfg.split_size = tok[3] \div cfg.split_size } }

OutToken(f, cfg) == CHOOSE t \in TokensOf({f - 1}, cfg) : TRUE

FirstHalf(e, cfg) == (e % cfg.dim) < (cfg.dim \div 2)

\* Every element of the block's attention output is computed from the
\* channel half it lies in only.
HalvesKept ==
    \A f \in 1..Len(attn_out.data) : \A e \in attn_out.data[f] :
        FirstHalf(e, attn_cfg) = FirstHalf(f - 1, attn_cfg)

\* C6 as amended: the first channel half goes to the mixer with index 0, whose
\* windows span the full height and split_size columns (vertical strips); the
\* second half goes to the mixer with index 1, whose windows span the full
\* width and split_size rows (horizontal strips).
C6_StripOrientation ==
    pc = "block_done" =>
        /\ HalvesKept
        /\ \A f \in 1..Len(attn_out.data) :
              TokensOf(attn_out.data[f], attn_cfg) =
                  IF FirstHalf(f - 1, attn_cfg)
                  THEN VerticalStrip(OutToken(f, attn_cfg), attn_cfg)
                  ELSE HorizontalStrip(OutToken(f, attn_cfg), attn_cfg)

C6_Witness ==
    /\ pc = "block_done"
    /\ attn_cfg.b = 2 /\ attn_cfg.h = 2 /\ attn_cfg.w = 3 /\ attn_cfg.split_size = 1
    /\ attn_cfg.num_heads = 4

\* C6 as stated: the mixer with index 0 (first channel half) attends within
\* horizontal strips (full width, split_size rows), the mixer with index 1
\* (second half) within vertical strips (full height, split_size columns).
C6_AsStated ==
    pc = "block_done" =>
        /\ HalvesKept
        /\ \A f \in 1..Len(attn_out.data) :
              TokensOf(attn_out.data[f], attn_cfg) =
                  IF FirstHalf(f - 1, attn_cfg)
                  THEN HorizontalStrip(OutToken(f, attn_cfg), attn_cfg)
                  ELSE VerticalStrip(OutToken(f, attn_cfg), attn_cfg)


---------------------------------------------------------------------------
(* The encoder: VIPTRNet.forward_features under the VIPTRv2 configuration. *)
(* What is modelled is the shape of the feature map: every layer's output  *)
(* shape, and every shape condition that makes a layer raise.              *)

\* Mutant: the second stage uses windows of 4 rows / 4 columns.
VIPTRv2_split4 ==
    [in_chans |-> 3, out_dim |-> 384, embed_dims |-> <<64, 128, 256>>,
     depths |-> <<3, 3, 3>>, num_heads |-> <<2, 4, 8>>,
     split_sizes |-> <<1, 4, 4>>, sr_ratios |-> <<4, 2, 2>>,
     mixer_types |-> <<"Local1", "LG1", "Global2">>]

\* The arguments VIPTRv2() gives VIPTRNet, with the defaults it leaves alone
\* (in_chans, mixer_types)
VIPTRv2 ==
    [in_chans |-> 3, out_dim |-> 384, embed_dims |-> <<64, 128, 256>>,
     depths |-> <<3, 3, 3>>, num_heads |-> <<2, 4, 8>>,
     split_sizes |-> <<1, 2, 4>>, sr_ratios |-> <<4, 2, 2>>,
     mixer_types |-> <<"Local1", "LG1", "Global2">>]

\* self.num_layers = len(depths)
num_layers == Len(VIPTRv2.depths)

\* Output length of nn.Conv2d along one axis
ConvOut(n, kernel_size, stride, padding) ==
    (n + 2 * padding - kernel_size) \div stride + 1

Raised == [ok |-> FALSE, shape |-> <<>>]

Shaped(shape) == [ok |-> TRUE, shape |-> shape]

\* PatchEmbed.forward on (b, c, h, w): two ConvBNLayer of kernel 3, stride 2,
\* padding 1, then permute(0, 2, 3, 1).  The first convolution refuses an
\* input whose channel count is not in_chans.
PatchEmbed(x) ==
    IF x[2] # VIPTRv2.in_chans THEN Raised
    ELSE Shaped(<<x[1],
                  ConvOut(ConvOut(x[3], 3, 2, 1), 3, 2, 1),
                  ConvOut(ConvOut(x[4], 3, 2, 1), 3, 2, 1),
                  VIPTRv2.embed_dims[1]>>)

\* Mutant: the reduction has stride 2 on both axes.
PatchMerging_stride2(x, dim, out_dim) ==
    IF x[4] # dim THEN Raised
    ELSE Shaped(<<x[1], ConvOut(x[2], 3, 2, 1), ConvOut(x[3], 3, 2, 1), out_dim>>)

\* PatchMerging.forward on (b, h, w, c): Conv2d(dim, out_dim, 3, (2, 1), 1)
PatchMerging(x, dim, out_dim) ==
    IF x[4] # dim THEN Raised
    ELSE Shaped(<<x[1], ConvOut(x[2], 3, 2, 1), ConvOut(x[3], 3, 1, 1), out_dim>>)

\* LePEAttention.forward on (b, n, c) tokens of an H x W map raises unless
\* idx selects a split and the view of img2windows to
\* (b, c, H // H_sp, H_sp, W // W_sp, W_sp) keeps the element count.
LePEFits(b, c, H, W, idx, split_size) ==
    LET sp == vip_split(idx, split_size, H, W)
    IN  /\ sp.ok
        /\ b * c * (H \div sp.h_sp) * sp.h_sp * (W \div sp.w_sp) * sp.w_sp = b * c * H * W

\* CSWinBlock.forward on x of shape (B, L, C): the assertion L == H * W and
\* the two mixers attns[0], attns[1] on the channel halves.
CSWinBlock(x, size, split_size) ==
    IF x[2] # size[1] * size[2] THEN Raised
    ELSE IF \E i \in {0, 1} : ~LePEFits(x[1], x[3] \div 2, size[1], size[2], i, split_size)
         THEN Raised
    ELSE Shaped(x)

\* OSRA_Block.forward on x of shape (B, N, C): OSRA_Attention reshapes the
\* tokens to (B, -1, H, W) and reduces keys and values with a convolution of
\* kernel sr_ratio + 3, stride sr_ratio, padding (sr_ratio + 3) // 2.
OSRA_Block(x, size, sr_ratio) ==
    LET kh == ConvOut(size[1], sr_ratio + 3, sr_ratio, (sr_ratio + 3) \div 2)
        kw == ConvOut(size[2], sr_ratio + 3, sr_ratio, (sr_ratio + 3) \div 2)
    IN  IF (x[1] * x[2] * x[3]) % (x[1] * size[1] * size[2]) # 0 THEN Raised
        ELSE IF kh < 1 \/ kw < 1 THEN Raised
        ELSE Shaped(x)

\* MHSA_Block.forward: plain self-attention over the tokens, any length
MHSA_Block(x, size) == Shaped(x)

\* One pass of the block loop of BasicLayer.forward for stage i (0-based) on
\* x of shape (b, h, w, d); every block of a stage sees the same shape.
Blocks(i, x, size) ==
    LET mixer  == VIPTRv2.mixer_types[i + 1]
        tokens == <<x[1], x[2] * x[3], x[4]>>
        half   == <<x[1], x[2] * x[3], x[4] \div 2>>
    IN  IF mixer = "Local1" THEN CSWinBlock(tokens, size, VIPTRv2.split_sizes[i + 1])
        ELSE IF mixer = "Global2" THEN MHSA_Block(tokens, size)
        ELSE IF mixer = "LG1"
             THEN IF /\ CSWinBlock(half, size, VIPTRv2.split_sizes[i + 1]).ok
                     /\ OSRA_Block(half, size, VIPTRv2.sr_ratios[i + 1]).ok
                  THEN Shaped(tokens) ELSE Raised
        ELSE Shaped(tokens)

\* BasicLayer.forward for stage i: the blocks, reshaped back to (b, h, w, d),
\* then the downsample, which VIPTRNet gives stages 0 and 1 only.
BasicLayer(i, x, size) ==
    IF VIPTRv2.depths[i + 1] > 0 /\ ~Blocks(i, x, size).ok THEN Raised
    ELSE IF i \in {0, 1}
         THEN PatchMerging(x, VIPTRv2.embed_dims[i + 1], VIPTRv2.embed_dims[i + 2])
    ELSE Shaped(x)

\* Mutant: the pooling averages over the width and keeps the height.
EncoderHead_keepheight(x) ==
    LET last   == 256
        pooled == <<x[1], x[2], last, 1>>
    IN  IF x[4] # last THEN Raised
        ELSE Shaped(<<pooled[1], pooled[2], 384>>)

\* The tail of forward_features on (b, h, w, c): LayerNorm(embed_dims[-1]),
\* permute(0, 2, 3, 1) to (b, w, c, h), AdaptiveAvgPool2d((embed_dims[-1], 1)),
\* squeeze(3), and the Linear(embed_dims[-1], out_dim) of mlp_head.
EncoderHead(x) ==
    LET last   == VIPTRv2.embed_dims[num_layers]
        pooled == <<x[1], x[3], last, 1>>
    IN  IF x[4] # last THEN Raised
        ELSE Shaped(<<pooled[1], pooled[2], VIPTRv2.out_dim>>)

---------------------------------------------------------------------------
(* Specification SpecEnc: one call of VIPTRNet.forward on (b, 3, h, w) *)

InitEnc ==
    /\ pc = "patch_embed"
    /\ impl = "vip"
    /\ \E b \in 1..MaxB, h \in 1..MaxImgH, w \in 1..MaxImgW :
          enc_in = <<b, VIPTRv2.in_chans, h, w>>
    /\ enc_x = <<>> /\ enc_size = <<>> /\ enc_stage = 0 /\ enc_sizes = <<>>
    /\ WinIdle
    /\ AttnIdle
    /\ FwdIdle
    /\ RecIdle

\* x = self.patch_embed(x); _, H, W, _ = x.shape
DoPatchEmbed ==
    /\ pc = "patch_embed"
    /\ LET r == PatchEmbed(enc_in)
       IN  IF r.ok
           THEN /\ enc_x' = r.shape
                /\ enc_size' = <<r.shape[2], r.shape[3]>>
                /\ pc' = IF num_layers > 0 THEN "layers" ELSE "head"
           ELSE /\ pc' = "raised"
                /\ UNCHANGED <<enc_x, enc_size>>
    /\ UNCHANGED <<impl, enc_in, enc_stage, enc_sizes, winVars, attnVars, fwdVars, recVars>>

\* One turn of the loop: x = layer(x, (H, W)); H = x.shape[1]
DoLayer ==
    /\ pc = "layers"
    /\ LET r == BasicLayer(enc_stage, enc_x, enc_size)
       IN  IF r.ok
           THEN /\ enc_x' = r.shape
                /\ enc_size' = <<r.shape[2], enc_size[2]>>
                /\ enc_stage' = enc_stage + 1
                /\ enc_sizes' = Append(enc_sizes, enc_x)
                /\ pc' = IF enc_stage + 1 < num_layers THEN "layers" ELSE "head"
           ELSE /\ pc' = "raised"
                /\ enc_sizes' = Append(enc_sizes, enc_x)
                /\ UNCHANGED <<enc_x, enc_size, enc_stage>>
    /\ UNCHANGED <<impl, enc_in, winVars, attnVars, fwdVars, recVars>>

\* norm, permute, pooling, squeeze, mlp_head
DoHead ==
    /\ pc = "head"
    /\ LET r == EncoderHead(enc_x)
       IN  IF r.ok
           THEN enc_x' = r.shape /\ pc' = "enc_done"
           ELSE pc' = "raised" /\ UNCHANGED enc_x
    /\ UNCHANGED <<impl, enc_in, enc_size, enc_stage, enc_sizes, winVars, attnVars, fwdVars, recVars>>

NextEnc == DoPatchEmbed \/ DoLayer \/ DoHead

SpecEnc == InitEnc /\ [][NextEnc]_vars

\* A valid input: height and width are multiples of 16
ValidInput == enc_in # <<>> /\ enc_in[3] % 16 = 0 /\ enc_in[4] % 16 = 0

\* C7: a completed call of the VIPTRv2 encoder on (B, 3, H, W) with W a
\* multiple of 4 (every valid input is one) returns shape (B, W/4, out_dim):
\* the sequence length is determined by the width alone, whatever the batch
\* size and the height, and the last dimension is 384.
C7_OutputShape ==
    (pc = "enc_done" /\ enc_in[4] % 4 = 0)
        => /\ enc_x = <<enc_in[1], enc_in[4] \div 4, VIPTRv2.out_dim>>
           /\ VIPTRv2.out_dim = 384

\* The example of the claim: (1, 3, 32, 128) gives 32 positions of 384.
C7_Witness ==
    /\ pc = "enc_done"
    /\ enc_in = <<1, 3, 32, 128>>
    /\ enc_x = <<1, 32, 384>>

\* C8: an input whose height and width are multiples of 16 never raises in
\* patch embedding or in any of the three stages, and the feature map
\* entering stage 0, 1, 2 has height H/4, H/8, H/16 and width W/4.
C8_ValidInputPasses ==
    ValidInput =>
        /\ pc # "raised"
        /\ \A i \in 1..Len(enc_sizes) :
              /\ enc_sizes[i][1] = enc_in[1]
              /\ enc_sizes[i][2] = enc_in[3] \div (2 ^ (i + 1))
              /\ enc_sizes[i][3] = enc_in[4] \div 4
        /\ (pc \in {"head", "enc_done"} => Len(enc_sizes) = 3)

C8_Witness ==
    /\ pc = "enc_done"
    /\ ValidInput
    /\ enc_in[3] = 16
    /\ Len(enc_sizes) = 3
    /\ enc_sizes[3][2] = 1


---------------------------------------------------------------------------
(* The recognition model: VIPTR.forward of recognition/vip/pytorch.py and  *)
(* of recognition/viptr/pytorch.py, statement by statement.  A call is     *)
(* described by the model's flags and the arguments that steer the control *)
(* flow; the tensors themselves are not part of this model.                *)

\* The set of elements of a sequence
Range(s) == {s[k] : k \in 1..Len(s)}

Variants == {"vip", "viptr"}

NeedLabels == "Need to provide labels during training."

\* Mutant: an exportable model is let through without labels.
MissingLabels_unlessExportable(f) ==
    f.training /\ f.target = "None" /\ ~f.exportable

\* if self.training and target is None
MissingLabels(f) == f.training /\ f.target = "None"

\* Mutant: the head is applied whatever the feature extractor returned.
HeadApplied_always(f) == TRUE

\* recognition/vip applies the head only if
\* features.size(-1) != len(self.vocab) + 1; recognition/viptr always does.
HeadApplied(f) ==
    IF f.variant = "vip" THEN ~f.head_in_extractor ELSE TRUE

InitFwd ==
    /\ pc = "fwd_features"
    /\ impl = "vip"
    /\ \E v \in Variants, tr \in BOOLEAN, ex \in BOOLEAN, tg \in {"None", "labels"},
          rmo \in BOOLEAN, rp \in BOOLEAN, hie \in BOOLEAN :
          /\ (v = "viptr" => ~hie)
          /\ fwd = [variant |-> v, training |-> tr, exportable |-> ex, target |-> tg,
                    return_model_output |-> rmo, return_preds |-> rp,
                    head_in_extractor |-> hie]
    /\ calls = <<>> /\ out = {} /\ err = ""
    /\ WinIdle
    /\ AttnIdle
    /\ EncIdle
    /\ RecIdle

\* features = self.feat_extractor(x); logits = self.head(features) where it is
\* applied; decoded_features = _bf16_to_float32(logits)
DoFeatures ==
    /\ pc = "fwd_features"
    /\ calls' = calls \o <<"feat_extractor">>
                      \o (IF HeadApplied(fwd) THEN <<"head">> ELSE <<>>)
                      \o <<"_bf16_to_float32">>
    /\ pc' = "fwd_check"
    /\ UNCHANGED <<impl, fwd, out, err, winVars, attnVars, encVars, recVars>>

\* if self.training and target is None: raise ValueError(...)
DoCheckLabels ==
    /\ pc = "fwd_check"
    /\ IF MissingLabels(fwd)
       THEN pc' = "raised" /\ err' = NeedLabels
       ELSE pc' = (IF fwd.variant = "vip" THEN "fwd_target" ELSE "fwd_export") /\ err' = err
    /\ UNCHANGED <<impl, fwd, calls, out, winVars, attnVars, encVars, recVars>>

\* recognition/vip only: if target is not None, build the target tensor
DoBuildTarget ==
    /\ pc = "fwd_target"
    /\ calls' = IF fwd.target # "None" THEN Append(calls, "build_target") ELSE calls
    /\ pc' = "fwd_export"
    /\ UNCHANGED <<impl, fwd, out, err, winVars, attnVars, encVars, recVars>>

\* out = {}; if self.exportable: out["logits"] = decoded_features; return out
DoExportable ==
    /\ pc = "fwd_export"
    /\ IF fwd.exportable
       THEN out' = {"logits"} /\ pc' = "returned"
       ELSE out' = {} /\ pc' = "fwd_outputs"
    /\ UNCHANGED <<impl, fwd, calls, err, winVars, attnVars, encVars, recVars>>

\* Mutant: predictions are decoded only on request.
WantsPreds_on_request(f) == f.return_preds

\* if target is None or return_preds
WantsPreds(f) == f.target = "None" \/ f.return_preds

\* out["out_map"], out["preds"], out["loss"] and return out; recognition/viptr
\* builds the target here, just before compute_loss
DoOutputs ==
    /\ pc = "fwd_outputs"
    /\ LET preds == WantsPreds(fwd)
           loss  == fwd.target # "None"
       IN  /\ out' = (IF fwd.return_model_output THEN {"out_map"} ELSE {})
                       \cup (IF preds THEN {"preds"} ELSE {})
                       \cup (IF loss THEN {"loss"} ELSE {})
           /\ calls' = calls
                         \o (IF preds THEN <<"postprocessor">> ELSE <<>>)
                         \o (IF loss /\ fwd.variant = "viptr" THEN <<"build_target">> ELSE <<>>)
                         \o (IF loss THEN <<"compute_loss">> ELSE <<>>)
    /\ pc' = "returned"
    /\ UNCHANGED <<impl, fwd, err, winVars, attnVars, encVars, recVars>>

NextFwd == DoFeatures \/ DoCheckLabels \/ DoBuildTarget \/ DoExportable \/ DoOutputs

SpecFwd == InitFwd /\ [][NextFwd]_vars

\* C9: once forward is past its label check, it has raised "Need to provide
\* labels during training." exactly if the model is in training mode and
\* target is None, whatever exportable, return_model_output and return_preds
\* are, in both variants.
C9_NeedLabelsIff ==
    (pc \in {"raised", "fwd_target", "fwd_export", "fwd_outputs", "returned"}) =>
        ((pc = "raised" /\ err = NeedLabels)
            <=> (fwd.training /\ fwd.target = "None"))

\* An exportable model asked for its raw output and predictions still raises.
C9_Witness ==
    /\ pc = "raised" /\ err = NeedLabels
    /\ fwd.exportable /\ fwd.return_model_output /\ fwd.return_preds

\* C10 as stated: when the missing-target error is raised, neither the
\* feature extractor nor the head has run.
C10_RaisedBeforeComputation ==
    (pc = "raised" /\ err = NeedLabels) =>
        ("feat_extractor" \notin Range(calls) /\ "head" \notin Range(calls))

\* C10 amended: when the missing-target error is raised, the feature
\* extractor has run, the head has run wherever the variant applies it, and
\* nothing else but the dtype conversion has: no target was built, nothing
\* was decoded, no loss computed and no result key set.
C10_RaisedAfterFeatures ==
    (pc = "raised" /\ err = NeedLabels) =>
        /\ Len(calls) > 0 /\ calls[1] = "feat_extractor"
        /\ ("head" \in Range(calls)
               <=> (fwd.variant = "viptr" \/ ~fwd.head_in_extractor))
        /\ Range(calls) \subseteq {"feat_extractor", "head", "_bf16_to_float32"}
        /\ out = {}

C10_Witness ==
    /\ pc = "raised" /\ err = NeedLabels
    /\ calls = <<"feat_extractor", "head", "_bf16_to_float32">>


\* C11: a call of forward that returned has, if the model is exportable,
\* exactly the key "logits" and called neither the post-processor nor
\* compute_loss, target or not; otherwise it has "out_map" iff
\* return_model_output, "preds" iff target is None or return_preds, "loss" iff
\* target is given, so it is not empty, and the post-processor was called
\* exactly if "preds" is there.
C11_ResultKeys ==
    (pc = "returned") =>
        IF fwd.exportable
        THEN /\ out = {"logits"}
             /\ "postprocessor" \notin Range(calls)
             /\ "compute_loss" \notin Range(calls)
        ELSE /\ ("out_map" \in out <=> fwd.return_model_output)
             /\ ("preds" \in out <=> (fwd.target = "None" \/ fwd.return_preds))
             /\ ("loss" \in out <=> fwd.target # "None")
             /\ out \subseteq {"out_map", "preds", "loss"}
             /\ out # {}
             /\ ("postprocessor" \in Range(calls) <=> "preds" \in out)
             /\ ("compute_loss" \in Range(calls) <=> "loss" \in out)

\* An exportable recognition/vip model called with a target and with both
\* return flags set returns "logits" alone.
C11_Witness ==
    /\ pc = "returned"
    /\ fwd.variant = "vip" /\ fwd.exportable /\ fwd.target = "labels"
    /\ fwd.return_model_output /\ fwd.return_preds
    /\ out = {"logits"}


---------------------------------------------------------------------------
(* CTC best-path decoding: VIPTRPostProcessor.ctc_best_path of both        *)
(* variants.  A string is the sequence of its characters.  The logits of a *)
(* time-step are given by their exponentials up to a common factor, one    *)
(* positive integer weight per class, so that softmax is the weight over   *)
(* the sum of the weights of the step: an exact fraction <<num, den>>.     *)

\* The vocabulary of the decoding example: index 0 is the blank, 1 'a', 2 'b'
Vocab == <<"a", "b">>

\* The weights a class may have at a time-step
Weights == {1, 2}

RECURSIVE GCD(_, _)
GCD(a, b) == IF b = 0 THEN a ELSE GCD(b, a % b)

Frac(n, d) == <<n \div GCD(n, d), d \div GCD(n, d)>>

FracLeq(x, y) == x[1] * y[2] <= y[1] * x[2]

MaxOf(step) == CHOOSE m \in Range(step) : \A w \in Range(step) : w <= m

\* F.softmax(logits, dim=-1).max(dim=-1).values for one time-step
MaxProb(step) == Frac(MaxOf(step), SumSeq(step))

\* Mutant: the minimum runs over the time-steps that are not blank.
MinProb_nonblank(sample) ==
    LET kept == {t \in 1..Len(sample) : sample[t][1] < MaxOf(sample[t])}
    IN  IF kept = {} THEN <<1, 1>>
        ELSE CHOOSE p \in {MaxProb(sample[t]) : t \in kept} :
                 \A t \in kept : FracLeq(p, MaxProb(sample[t]))

\* .min(dim=1).values for one sample
MinProb(sample) ==
    CHOOSE p \in {MaxProb(sample[t]) : t \in 1..Len(sample)} :
        \A t \in 1..Len(sample) : FracLeq(p, MaxProb(sample[t]))

\* torch.argmax(logits, dim=-1) for one time-step: the first maximal class
ArgMax(step) ==
    CHOOSE c \in 0..(Len(step) - 1) :
        /\ step[c + 1] = MaxOf(step)
        /\ \A d \in 0..(c - 1) : step[d + 1] < MaxOf(step)

ArgMaxPath(sample) == [t \in 1..Len(sample) |-> ArgMax(sample[t])]

\* [k for k, _ in itertools.groupby(seq)]: one index per run of equal indices
RECURSIVE GroupKeys(_)
GroupKeys(seq) ==
    IF Len(seq) <= 1 THEN seq
    ELSE IF seq[1] = seq[2] THEN GroupKeys(Tail(seq))
    ELSE <<seq[1]>> \o GroupKeys(Tail(seq))

NotBlank(seq, blank) == SelectSeq(seq, LAMBDA k : k # blank)

\* doctr.datasets.decode_sequence: "".join(map(mapping.__getitem__, input_seq));
\* an index from -len(mapping) to -1 counts from the end, an index outside
\* -len(mapping) .. len(mapping) - 1 raises IndexError.
decode_sequence(input_seq, mapping) ==
    IF \E i \in 1..Len(input_seq) :
           input_seq[i] >= Len(mapping) \/ input_seq[i] < -Len(mapping)
    THEN [ok |-> FALSE, word |-> <<>>]
    ELSE [ok |-> TRUE,
          word |-> [i \in 1..Len(input_seq) |->
                       IF input_seq[i] >= 0 THEN mapping[input_seq[i] + 1]
                       ELSE mapping[Len(mapping) + input_seq[i] + 1]]]

\* Mutant: blanks are removed before the runs are collapsed.
viptr_word_blank_first(seq, vocab, blank) ==
    LET kept == GroupKeys(NotBlank(seq, blank))
    IN  decode_sequence([i \in 1..Len(kept) |-> kept[i] - 1], vocab)

\* recognition/viptr: decode_sequence([k - 1 for k, _ in groupby(seq) if k != blank], vocab)
viptr_word(seq, vocab, blank) ==
    LET kept == NotBlank(GroupKeys(seq), blank)
    IN  decode_sequence([i \in 1..Len(kept) |-> kept[i] - 1], vocab)

\* recognition/vip: decode_sequence([k for k, _ in groupby(seq) if k != blank], vocab)
vip_word(seq, vocab, blank) ==
    decode_sequence(NotBlank(GroupKeys(seq), blank), vocab)

DecodeError == [ok |-> FALSE, preds |-> <<>>]

\* Mutant: the per-sample results are produced by an iterator that an
\* earlier call has consumed.
ctc_best_path_consumed(variant, logits, vocab, blank) ==
    LET word(b) == IF variant = "vip" THEN vip_word(ArgMaxPath(logits[b]), vocab, blank)
                   ELSE viptr_word(ArgMaxPath(logits[b]), vocab, blank)
    IN  IF \E b \in 1..Len(logits) : ~word(b).ok THEN DecodeError
        ELSE IF Len(rec_out) > 0 THEN [ok |-> TRUE, preds |-> <<>>]
        ELSE [ok |-> TRUE,
              preds |-> [b \in 1..Len(logits) |-> <<word(b).word, MinProb(logits[b])>>]]

\* ctc_best_path(logits, vocab, blank) of the variant: a list of
\* (word, confidence), or the error the list comprehension raises.
ctc_best_path(variant, logits, vocab, blank) ==
    LET word(b) == IF variant = "vip" THEN vip_word(ArgMaxPath(logits[b]), vocab, blank)
                   ELSE viptr_word(ArgMaxPath(logits[b]), vocab, blank)
    IN  IF \E b \in 1..Len(logits) : ~word(b).ok THEN DecodeError
        ELSE [ok |-> TRUE,
              preds |-> [b \in 1..Len(logits) |-> <<word(b).word, MinProb(logits[b])>>]]

\* All weight vectors of one time-step over the classes blank + vocabulary
Steps == [1..(Len(Vocab) + 1) -> Weights]

\* Logits of one time-step whose argmax is class k
OneHot(k) == [c \in 1..(Len(Vocab) + 1) |-> IF c = k + 1 THEN 2 ELSE 1]

PathLogits(path) == [t \in 1..Len(path) |-> OneHot(path[t])]

\* The logits of the decoding example (argmax blank a a blank b b b blank),
\* alone and in a batch with a second sample
ExampleLogits ==
    { <<PathLogits(<<0, 1, 1, 0, 2, 2, 2, 0>>)>>,
      <<PathLogits(<<0, 1, 1, 0, 2, 2, 2, 0>>), PathLogits(<<1, 1, 0, 1, 0, 0, 1, 1>>)>> }

---------------------------------------------------------------------------
(* Specification SpecDec: calls of the post-processor on one logits tensor *)

InitDec ==
    /\ pc = "decode"
    /\ impl = "vip"
    /\ \E v \in Variants, tr \in BOOLEAN :
       \E lg \in ExampleLogits \cup
                 UNION { { <<sample>> : sample \in [1..T -> Steps] } : T \in 1..MaxT } :
          rec_in = [variant |-> v, training |-> tr, logits |-> lg, vocab |-> Vocab]
    /\ rec_out = <<>>
    /\ WinIdle
    /\ AttnIdle
    /\ EncIdle
    /\ FwdIdle

\* VIPTRPostProcessor.__call__(logits)
DoDecode ==
    /\ pc = "decode"
    /\ Len(rec_out) < MaxCalls
    /\ rec_out' = Append(rec_out, ctc_best_path(rec_in.variant, rec_in.logits, rec_in.vocab, 0))
    /\ UNCHANGED <<pc, impl, rec_in, winVars, attnVars, encVars, fwdVars>>

\* model.train() / model.eval() between two calls
DoSwitchMode ==
    /\ pc = "decode"
    /\ Len(rec_out) < MaxCalls
    /\ rec_in' = [rec_in EXCEPT !.training = ~rec_in.training]
    /\ UNCHANGED <<pc, impl, rec_out, winVars, attnVars, encVars, fwdVars>>

NextDec == DoDecode \/ DoSwitchMode

SpecDec == InitDec /\ [][NextDec]_vars


\* The string best-path decoding is to give for an argmax path: runs of
\* equal indices collapsed, blanks (index 0) removed, index k mapped to the
\* vocabulary symbol at position k - 1 (the k-th symbol).
BestPathWord(path, vocab) ==
    LET kept == NotBlank(GroupKeys(path), 0)
    IN  [i \in 1..Len(kept) |-> vocab[kept[i]]]

\* C12: every call of the recognition/vip post-processor returns, for every
\* sample, the string obtained from the argmax path by collapsing runs,
\* removing blanks and mapping index k to the symbol at position k - 1; so
\* argmax [0,1,1,0,2,2,2,0] over "ab" gives "ab", [1,1] gives "a" and
\* [1,0,1] gives "aa".
C12_BestPathDecoding ==
    (rec_in # <<>> /\ rec_in.variant = "vip") =>
        \A i \in 1..Len(rec_out) :
            /\ rec_out[i].ok
            /\ \A b \in 1..Len(rec_in.logits) :
                  rec_out[i].preds[b][1] = BestPathWord(ArgMaxPath(rec_in.logits[b]), rec_in.vocab)


---------------------------------------------------------------------------
(* Target encoding: _VIPTR.build_target *)

\* str.index: the 0-based position of the first occurrence of x, -1 standing
\* for the ValueError of a character that is not in the vocabulary
Index(vocab, x) ==
    IF \E p \in 1..Len(vocab) : vocab[p] = x
    THEN (CHOOSE p \in 1..Len(vocab) :
              vocab[p] = x /\ \A q \in 1..(p - 1) : vocab[q] # x) - 1
    ELSE -1

TargetError == [ok |-> FALSE, encoded |-> <<>>, seq_len |-> <<>>]

\* Mutant: the characters are encoded by their position, without the + 1.
build_target_zero_based(gts, vocab, max_length) ==
    IF \E i \in 1..Len(gts) :
           \/ Len(gts[i]) > max_length
           \/ \E j \in 1..Len(gts[i]) : Index(vocab, gts[i][j]) = -1
    THEN TargetError
    ELSE [ok |-> TRUE,
          encoded |-> [i \in 1..Len(gts) |->
                          [j \in 1..max_length |->
                              IF j <= Len(gts[i]) THEN Index(vocab, gts[i][j]) ELSE 0]],
          seq_len |-> [i \in 1..Len(gts) |-> Len(gts[i])]]

\* Mutant: an over-long label is cut at max_length and a character outside
\* the vocabulary is encoded as 0.
build_target_lenient(gts, vocab, max_length) ==
    [ok |-> TRUE,
     encoded |-> [i \in 1..Len(gts) |->
                     [j \in 1..max_length |->
                         IF j <= Len(gts[i]) THEN Index(vocab, gts[i][j]) + 1 ELSE 0]],
     seq_len |-> [i \in 1..Len(gts) |-> Len(gts[i])]]

\* build_target(gts): seq_len = the lengths, encoded = zeros((len(gts),
\* max_length)) with encoded[i][:len(seq)] = [vocab.index(x) + 1 for x in seq].
\* vocab.index raises for a character outside the vocabulary, and the
\* assignment of more than max_length values to the row raises.
build_target(gts, vocab, max_length) ==
    IF \E i \in 1..Len(gts) :
           \/ Len(gts[i]) > max_length
           \/ \E j \in 1..Len(gts[i]) : Index(vocab, gts[i][j]) = -1
    THEN TargetError
    ELSE [ok |-> TRUE,
          encoded |-> [i \in 1..Len(gts) |->
                          [j \in 1..max_length |->
                              IF j <= Len(gts[i]) THEN Index(vocab, gts[i][j]) + 1 ELSE 0]],
          seq_len |-> [i \in 1..Len(gts) |-> Len(gts[i])]]

\* The strings over a set of characters of length at most n
Strings(chars, n) == UNION { [1..k -> chars] : k \in 0..n }

NoAdjacentRepeat(word) == \A j \in 1..(Len(word) - 1) : word[j] # word[j + 1]

\* C13: every call of the recognition/viptr post-processor returns, and maps
\* a non-blank index k to the vocabulary symbol at position k - 1, as the
\* head and build_target do; when the argmax path of a sample is
\* build_target's encoding of a label without adjacent repeated characters,
\* the decoded string is that label.
C13_IndexConvention ==
    (rec_in # <<>> /\ rec_in.variant = "viptr") =>
        \A i \in 1..Len(rec_out) :
            /\ rec_out[i].ok
            /\ \A b \in 1..Len(rec_in.logits) :
                  LET path == ArgMaxPath(rec_in.logits[b])
                      word == rec_out[i].preds[b][1]
                  IN  /\ word = BestPathWord(path, rec_in.vocab)
                      /\ \A label \in Strings(Range(rec_in.vocab), Len(path)) :
                            (/\ NoAdjacentRepeat(label)
                             /\ path = build_target(<<label>>, rec_in.vocab, Len(path)).encoded[1])
                                => word = label

\* The argmax path is the encoding of "ab" padded to three positions, and
\* the call returned "ab".
C13_Witness ==
    /\ rec_in # <<>> /\ rec_in.variant = "viptr"
    /\ Len(rec_out) > 0
    /\ ArgMaxPath(rec_in.logits[1]) = build_target(<<<<"a", "b">>>>, Vocab, 3).encoded[1]
    /\ rec_out[1].ok
    /\ rec_out[1].preds[1][1] = <<"a", "b">>


StepBest(sample, t) == <<MaxOf(sample[t]), SumSeq(sample[t])>>

FracEq(x, y) == x[1] * y[2] = y[1] * x[2]

\* C15: in every list a call returns, the confidence of a sample is the
\* minimum over all its time-steps, blank and repeated ones included, of the
\* largest softmax probability of the step: it is the value of one step, it
\* exceeds that of no step, and it is at least 1/C for C classes.
C15_Confidence ==
    \A i \in 1..Len(rec_out) :
        rec_out[i].ok =>
            \A b \in 1..Len(rec_in.logits) :
                LET sample == rec_in.logits[b]
                    conf   == rec_out[i].preds[b][2]
                    C      == Len(sample[1])
                IN  /\ \E t \in 1..Len(sample) : FracEq(conf, StepBest(sample, t))
                    /\ \A t \in 1..Len(sample) : FracLeq(conf, StepBest(sample, t))
                    /\ FracLeq(<<1, C>>, conf)

\* The confidence is that of a blank step and is below that of another step.
C15_Witness ==
    /\ Len(rec_out) > 0
    /\ rec_out[1].ok
    /\ LET sample == rec_in.logits[1]
           conf   == rec_out[1].preds[1][2]
       IN  /\ \E t \in 1..Len(sample) :
                 ArgMax(sample[t]) = 0 /\ FracEq(conf, StepBest(sample, t))
           /\ \E t \in 1..Len(sample) :
                 ArgMax(sample[t]) # 0 /\ ~FracLeq(StepBest(sample, t), conf)


---------------------------------------------------------------------------
(* Specification SpecTarget: one call of build_target on a list of labels. *)
(* Labels are drawn over the vocabulary and one character outside it, and  *)
(* may be longer than max_length.                                          *)

Chars == Range(Vocab) \cup {"z"}

InitTarget ==
    /\ pc = "build_target"
    /\ impl = "vip"
    /\ \E n \in 1..MaxLabels, max_length \in 1..MaxLength :
       \E gts \in [1..n -> Strings(Chars, MaxLength)] :
          rec_in = [vocab |-> Vocab, max_length |-> max_length, gts |-> gts]
    /\ rec_out = <<>>
    /\ WinIdle
    /\ AttnIdle
    /\ EncIdle
    /\ FwdIdle

\* self.build_target(target)
CallBuildTarget ==
    /\ pc = "build_target"
    /\ rec_out' = <<build_target(rec_in.gts, rec_in.vocab, rec_in.max_length)>>
    /\ pc' = IF rec_out'[1].ok THEN "target_built" ELSE "raised"
    /\ UNCHANGED <<impl, rec_in, winVars, attnVars, encVars, fwdVars>>

NextTarget == CallBuildTarget

SpecTarget == InitTarget /\ [][NextTarget]_vars

\* Every label is over the vocabulary and no longer than max_length
ValidLabels ==
    \A i \in 1..Len(rec_in.gts) :
        /\ Len(rec_in.gts[i]) <= rec_in.max_length
        /\ Range(rec_in.gts[i]) \subseteq Range(rec_in.vocab)

\* C16: for labels over the vocabulary no longer than max_length,
\* build_target returns len(gts) rows of max_length columns; row i holds in
\* its first len(label_i) columns the indices position + 1 of the label's
\* characters, in order, each in 1..len(vocab) and never 0, and 0 in every
\* later column; seq_len[i] = len(label_i).
C16_TargetEncoding ==
    (pc # "build_target" /\ ValidLabels) =>
        LET r == rec_out[1]
        IN  /\ pc = "target_built" /\ r.ok
            /\ Len(r.encoded) = Len(rec_in.gts)
            /\ Len(r.seq_len) = Len(rec_in.gts)
            /\ \A i \in 1..Len(rec_in.gts) :
                  /\ Len(r.encoded[i]) = rec_in.max_length
                  /\ r.seq_len[i] = Len(rec_in.gts[i])
                  /\ \A j \in 1..rec_in.max_length :
                        IF j <= Len(rec_in.gts[i])
                        THEN /\ r.encoded[i][j] \in 1..Len(rec_in.vocab)
                             /\ rec_in.vocab[r.encoded[i][j]] = rec_in.gts[i][j]
                        ELSE r.encoded[i][j] = 0

\* Two labels, "ba" and the shorter "a", encoded to rows (2, 1) and (1, 0).
C16_Witness ==
    /\ pc = "target_built"
    /\ rec_in.gts = << <<"b", "a">>, <<"a">> >>
    /\ rec_in.max_length = 2
    /\ rec_out[1].encoded = << <<2, 1>>, <<1, 0>> >>
    /\ rec_out[1].seq_len = <<2, 1>>


---------------------------------------------------------------------------
(* The CTC loss: VIPTR.compute_loss, with the target preparation of        *)
(* VIPTR.forward.  The probability of a label under the softmax of the     *)
(* logits is the exact fraction num / den, num the sum over the alignments *)
(* of the label of the product of their class weights and den the product  *)
(* of the weight sums of the steps; the loss of a sample is -ln(num/den),  *)
(* infinite when num is 0.                                                  *)

\* The label with a blank before, between and after its symbols
Extended(label, blank) ==
    [s \in 1..(2 * Len(label) + 1) |-> IF s % 2 = 1 THEN blank ELSE label[s \div 2]]

\* The forward variables of CTC at time-step t, over the extended label
RECURSIVE Alpha(_, _, _)
Alpha(sample, ext, t) ==
    IF t = 1
    THEN [s \in 1..Len(ext) |-> IF s <= 2 THEN sample[1][ext[s] + 1] ELSE 0]
    ELSE LET prev == Alpha(sample, ext, t - 1)
         IN  [s \in 1..Len(ext) |->
                 ( prev[s]
                   + (IF s > 1 THEN prev[s - 1] ELSE 0)
                   + (IF s > 2 /\ ext[s] # ext[s - 2] THEN prev[s - 2] ELSE 0) )
                 * sample[t][ext[s] + 1]]

\* The probability of the label given input_length steps of the sample
CTCProb(sample, label, input_length, blank) ==
    LET ext  == Extended(label, blank)
        last == Alpha(sample, ext, input_length)
        num  == last[Len(ext)] + (IF Len(ext) > 1 THEN last[Len(ext) - 1] ELSE 0)
        den  == Prod([t \in 1..input_length |-> SumSeq(sample[t])])
    IN  <<num, den>>

\* Mutant: an infinite loss is kept.
keep_infinity(p) == [inf |-> p[1] = 0, zero |-> FALSE, p |-> p]

\* zero_infinity=True: an infinite loss is replaced by zero
zero_infinity(p) == [inf |-> FALSE, zero |-> p[1] = 0, p |-> p]

LossError == [ok |-> FALSE, terms |-> <<>>, input_length |-> <<>>, target_length |-> <<>>]

\* Mutant: the slice stops one column before the end of the longest label.
SliceTargets_short(encoded, seq_len) ==
    LET longest == CHOOSE m \in Range(seq_len) : \A n \in Range(seq_len) : n <= m
    IN  [i \in 1..Len(encoded) |->
            SubSeq(encoded[i], 1, IF longest - 1 < Len(encoded[i]) THEN longest - 1
                                  ELSE Len(encoded[i]))]

\* gt[:, : (int(seq_len.max().item()) + 1)]
SliceTargets(encoded, seq_len) ==
    LET longest == CHOOSE m \in Range(seq_len) : \A n \in Range(seq_len) : n <= m
    IN  [i \in 1..Len(encoded) |->
            SubSeq(encoded[i], 1, IF longest + 1 < Len(encoded[i]) THEN longest + 1
                                  ELSE Len(encoded[i]))]

\* compute_loss(model_output, gt, seq_len): input_length is T for every
\* sample, the target lengths are seq_len, and the loss is the mean over the
\* batch of the terms -ln(p) / max(target length, 1); a term is kept here as
\* its probability p and whether it was infinite or zeroed.
compute_loss(model_output, gt, seq_len) ==
    LET batch_len    == Len(model_output)
        input_length == [b \in 1..batch_len |-> Len(model_output[1])]
        target(b)    == SubSeq(gt[b], 1, seq_len[b])
    IN  IF Len(gt) # batch_len \/ Len(seq_len) # batch_len THEN LossError
        ELSE IF \E b \in 1..batch_len : seq_len[b] > Len(gt[b]) THEN LossError
        ELSE [ok |-> TRUE,
              terms |-> [b \in 1..batch_len |->
                            zero_infinity(CTCProb(model_output[b], target(b), input_length[b], 0))],
              input_length |-> input_length,
              target_length |-> seq_len]

\* The scalar is finite if no term is infinite, non-negative if every term
\* that is not zeroed has a probability of at most 1.
Finite(loss) ==
    \A b \in 1..Len(loss.terms) :
        ~loss.terms[b].inf /\ (loss.terms[b].zero \/ loss.terms[b].p[1] > 0)

NonNegative(loss) ==
    \A b \in 1..Len(loss.terms) :
        loss.terms[b].zero \/ loss.terms[b].p[1] <= loss.terms[b].p[2]

\* The logits of a time-step: all classes alike, or one class ahead
LossSteps == {[c \in 1..(Len(Vocab) + 1) |-> 1]} \cup {OneHot(k) : k \in 0..Len(Vocab)}

BatchSizes == {1, 2}

---------------------------------------------------------------------------
(* Specification SpecLoss: the target preparation and loss of one training *)
(* call, on logits of T steps and labels shorter than max_length           *)

InitLoss ==
    /\ pc = "loss"
    /\ impl = "vip"
    /\ \E v \in Variants, n \in BatchSizes, T \in 1..MaxT :
       \E gts \in [1..n -> Strings(Range(Vocab), MaxLength)], sample \in [1..T -> LossSteps] :
          rec_in = [variant |-> v, vocab |-> Vocab, max_length |-> MaxLength + 1,
                    gts |-> gts, logits |-> [b \in 1..n |-> sample]]
    /\ rec_out = <<>>
    /\ WinIdle
    /\ AttnIdle
    /\ EncIdle
    /\ FwdIdle

\* _gt, _seq_len = self.build_target(target); gt = gt[:, : max(seq_len) + 1];
\* out["loss"] = self.compute_loss(decoded_features, gt, seq_len)
CallComputeLoss ==
    /\ pc = "loss"
    /\ LET tg == build_target(rec_in.gts, rec_in.vocab, rec_in.max_length)
       IN  IF tg.ok
           THEN rec_out' = <<compute_loss(rec_in.logits,
                                          SliceTargets(tg.encoded, tg.seq_len), tg.seq_len)>>
           ELSE rec_out' = <<LossError>>
    /\ pc' = IF rec_out'[1].ok THEN "loss_done" ELSE "raised"
    /\ UNCHANGED <<impl, rec_in, winVars, attnVars, encVars, fwdVars>>

NextLoss == CallComputeLoss

SpecLoss == InitLoss /\ [][NextLoss]_vars

\* The number of positions j with label[j] = label[j + 1]
AdjacentRepeats(label) == Cardinality({j \in 1..(Len(label) - 1) : label[j] = label[j + 1]})

\* C17: for labels over the vocabulary shorter than max_length compute_loss
\* returns a finite, non-negative scalar; a sample whose label length plus
\* number of adjacent equal characters exceeds T, and only such a sample, has
\* no alignment and contributes zero; the input length of every sample is T
\* and its target length is its label's length.
C17_LossFinite ==
    (pc # "loss") =>
        LET loss == rec_out[1]
            T    == Len(rec_in.logits[1])
        IN  /\ pc = "loss_done" /\ loss.ok
            /\ Finite(loss) /\ NonNegative(loss)
            /\ \A b \in 1..Len(rec_in.gts) :
                  /\ loss.input_length[b] = T
                  /\ loss.target_length[b] = Len(rec_in.gts[b])
                  /\ loss.terms[b].zero
                        <=> (Len(rec_in.gts[b]) + AdjacentRepeats(rec_in.gts[b]) > T)

\* A batch of two labels under the same logits: the first has no alignment
\* and is zeroed, the second has one and contributes -ln of its probability.
C17_Witness ==
    /\ pc = "loss_done"
    /\ Len(rec_in.gts) = 2
    /\ rec_out[1].terms[1].zero
    /\ ~rec_out[1].terms[2].zero
    /\ rec_out[1].terms[2].p[1] > 0


---------------------------------------------------------------------------
(* The shape of the logits: the first statements of VIPTR.forward, from    *)
(* the feature extractor's output (B, P, E) to the logits                  *)

Min2(a, b) == IF a <= b THEN a ELSE b

\* self.head = nn.Linear(embedding_units, len(self.vocab) + 1) followed by
\* .view(B, N, len(self.vocab) + 1): the last dimension of the input must be
\* embedding_units
HeadShape(x, cfg) ==
    IF x[3] # cfg.embedding_units THEN Raised
    ELSE Shaped(<<x[1], x[2], Len(cfg.vocab) + 1>>)

\* features[:, : self.max_length]
Truncate(x, cfg) == <<x[1], Min2(x[2], cfg.max_length), x[3]>>

\* recognition/viptr: truncate, then the head, always
viptr_logits(features, cfg) == HeadShape(Truncate(features, cfg), cfg)

\* recognition/vip: truncate and apply the head only if the last dimension
\* of the features is not len(vocab) + 1; otherwise the features are the
\* logits as they are
vip_logits(features, cfg) ==
    IF features[3] # Len(cfg.vocab) + 1
    THEN HeadShape(Truncate(features, cfg), cfg)
    ELSE Shaped(features)

---------------------------------------------------------------------------
(* Specification SpecLogits: features of shape (B, P, E) through the head *)

InitLogits ==
    /\ pc = "logits"
    /\ impl = "vip"
    /\ \E v \in Variants, B \in 1..MaxB, P \in 1..MaxSide, E \in 1..MaxEmbed,
          units \in 1..MaxEmbed, max_length \in 1..MaxT :
          rec_in = [variant |-> v, vocab |-> Vocab, max_length |-> max_length,
                    embedding_units |-> units, features |-> <<B, P, E>>]
    /\ rec_out = <<>>
    /\ WinIdle
    /\ AttnIdle
    /\ EncIdle
    /\ FwdIdle

CallHead ==
    /\ pc = "logits"
    /\ rec_out' = << IF rec_in.variant = "vip" THEN vip_logits(rec_in.features, rec_in)
                     ELSE viptr_logits(rec_in.features, rec_in) >>
    /\ pc' = IF rec_out'[1].ok THEN "logits_done" ELSE "raised"
    /\ UNCHANGED <<impl, rec_in, winVars, attnVars, encVars, fwdVars>>

NextLogits == CallHead

SpecLogits == InitLogits /\ [][NextLogits]_vars

\* C18: in recognition/vip, features of shape (B, P, E) with E equal to the
\* head's embedding_units give logits of shape
\* (B, min(P, max_length), len(vocab) + 1).
C18_LogitsShape ==
    (/\ pc # "logits"
     /\ rec_in.variant = "vip"
     /\ rec_in.features[3] = rec_in.embedding_units) =>
        /\ rec_out[1].ok
        /\ rec_out[1].shape = <<rec_in.features[1],
                                Min2(rec_in.features[2], rec_in.max_length),
                                Len(rec_in.vocab) + 1>>


---------------------------------------------------------------------------
(* Construction: VIPTRNet.__init__ building its stages, BasicLayer.__init__ *)
(* and PatchMerging.__init__                                                *)

\* out_dim=None: no output dimension
None == 0

BuildError == [ok |-> FALSE, dim |-> 0, out_dim |-> 0]

\* Mutant: the reduction is created without looking at out_dim.
PatchMergingInit_unchecked(dim, out_dim) == [ok |-> TRUE, dim |-> dim, out_dim |-> out_dim]

\* PatchMerging.__init__: nn.Conv2d(dim, out_dim, 3, (2, 1), 1) computes
\* out_channels % groups and raises TypeError for out_dim None
PatchMergingInit(dim, out_dim) ==
    IF out_dim = None THEN BuildError
    ELSE [ok |-> TRUE, dim |-> dim, out_dim |-> out_dim]

\* BasicLayer.__init__: the blocks, then
\* self.downsample = downsample(dim=embed_dim, out_dim=out_dim, ...) if a
\* downsample class was given, else None
BasicLayerInit(embed_dim, out_dim, downsample) ==
    IF downsample
    THEN LET d == PatchMergingInit(embed_dim, out_dim)
         IN  IF d.ok THEN [ok |-> TRUE, embed_dim |-> embed_dim, out_dim |-> out_dim,
                           downsample |-> TRUE]
             ELSE [ok |-> FALSE, embed_dim |-> embed_dim, out_dim |-> out_dim,
                   downsample |-> TRUE]
    ELSE [ok |-> TRUE, embed_dim |-> embed_dim, out_dim |-> out_dim, downsample |-> FALSE]

\* The arguments VIPTRNet.__init__ gives stage i_layer (0-based):
\* out_dim = embed_dims[i_layer + 1] if i_layer < num_layers - 1 else None,
\* downsample = PatchMerging if i_layer in [0, 1] else None
StageArgs(cfg, i_layer) ==
    [embed_dim  |-> cfg.embed_dims[i_layer + 1],
     out_dim    |-> IF i_layer < Len(cfg.depths) - 1 THEN cfg.embed_dims[i_layer + 2]
                    ELSE None,
     downsample |-> i_layer \in {0, 1}]

Dims == {64, 128}

---------------------------------------------------------------------------
(* Specification SpecBuild: the construction of an encoder, stage by       *)
(* stage, or of a single BasicLayer, and the first forward call on what    *)
(* was built                                                               *)

InitBuild ==
    /\ pc = "build"
    /\ impl = "vip"
    /\ \/ \E n \in 0..MaxLayers : \E dims \in [1..n -> Dims] :
             rec_in = [kind |-> "VIPTRNet", depths |-> [i \in 1..n |-> 3],
                       embed_dims |-> dims]
       \/ \E d \in Dims, o \in Dims \cup {None}, ds \in BOOLEAN :
             rec_in = [kind |-> "BasicLayer", embed_dim |-> d, out_dim |-> o,
                       downsample |-> ds]
    /\ rec_out = <<>>
    /\ WinIdle
    /\ AttnIdle
    /\ EncIdle
    /\ FwdIdle

\* One turn of for i_layer in range(self.num_layers) of VIPTRNet.__init__
BuildStage ==
    /\ pc = "build"
    /\ rec_in.kind = "VIPTRNet"
    /\ Len(rec_out) < Len(rec_in.depths)
    /\ LET a == StageArgs(rec_in, Len(rec_out))
           l == BasicLayerInit(a.embed_dim, a.out_dim, a.downsample)
       IN  /\ rec_out' = Append(rec_out, l)
           /\ pc' = IF l.ok THEN "build" ELSE "raised"
    /\ UNCHANGED <<impl, rec_in, winVars, attnVars, encVars, fwdVars>>

\* A BasicLayer built on its own
BuildLayer ==
    /\ pc = "build"
    /\ rec_in.kind = "BasicLayer"
    /\ LET l == BasicLayerInit(rec_in.embed_dim, rec_in.out_dim, rec_in.downsample)
       IN  /\ rec_out' = <<l>>
           /\ pc' = IF l.ok THEN "built" ELSE "raised"
    /\ UNCHANGED <<impl, rec_in, winVars, attnVars, encVars, fwdVars>>

\* The end of VIPTRNet.__init__: the object is returned
FinishBuild ==
    /\ pc = "build"
    /\ rec_in.kind = "VIPTRNet"
    /\ Len(rec_out) = Len(rec_in.depths)
    /\ pc' = "built"
    /\ UNCHANGED <<impl, rec_in, rec_out, winVars, attnVars, encVars, fwdVars>>

\* A forward pass of the object that was built
CallForward ==
    /\ pc = "built"
    /\ calls' = Append(calls, "forward")
    /\ pc' = "called"
    /\ UNCHANGED <<impl, fwd, out, err, recVars, winVars, attnVars, encVars>>

NextBuild == BuildStage \/ BuildLayer \/ FinishBuild \/ CallForward

SpecBuild == InitBuild /\ [][NextBuild]_vars

\* C19: a stage asked for with a downsample layer and out_dim None is never
\* built: its construction raises, and no forward pass has run when it
\* does.  A VIPTRNet whose last stage has index 0 or 1 (one or two stages)
\* is never returned, nor called.
C19_DownsampleNeedsOutDim ==
    /\ \A i \in 1..Len(rec_out) :
          (rec_out[i].downsample /\ rec_out[i].out_dim = None)
              => (~rec_out[i].ok /\ pc = "raised" /\ calls = <<>>)
    /\ (rec_in # <<>> /\ rec_in.kind = "BasicLayer"
            /\ rec_in.downsample /\ rec_in.out_dim = None)
          => (pc \in {"build", "raised"} /\ calls = <<>>)
    /\ (rec_in # <<>> /\ rec_in.kind = "VIPTRNet" /\ Len(rec_in.depths) \in {1, 2})
          => (pc \in {"build", "raised"} /\ calls = <<>>)
    /\ (pc = "raised" => calls = <<>>)

\* A two-stage encoder: stage 0 was built, stage 1 raised.
C19_Witness ==
    /\ pc = "raised"
    /\ rec_in.kind = "VIPTRNet"
    /\ Len(rec_in.depths) = 2
    /\ Len(rec_out) = 2
    /\ rec_out[1].ok /\ ~rec_out[2].ok
    /\ rec_out[2].downsample /\ rec_out[2].out_dim = None


---------------------------------------------------------------------------
(* Attention weights: the softmax of the three mixers of layers/pytorch.py. *)
(* The scores of a mixer are a tensor (groups, queries, keys), groups being *)
(* batch x heads (x windows for LePEAttention); a score is given by its     *)
(* exponential, a positive integer weight, and a softmax value is the exact *)
(* fraction of the weight in the sum of the weights along the axis.         *)

\* Mutant: the softmax runs along the query axis.
softmax_queries(scores, dim) ==
    [g \in 1..Len(scores) |->
        [i \in 1..Len(scores[g]) |->
            [j \in 1..Len(scores[g][i]) |->
                Frac(scores[g][i][j],
                     SumSeq([i2 \in 1..Len(scores[g]) |-> scores[g][i2][j]]))]]]

\* softmax(attn, dim): dim = -1 normalises along the keys, dim = -2 along
\* the queries
softmax(scores, dim) ==
    [g \in 1..Len(scores) |->
        [i \in 1..Len(scores[g]) |->
            [j \in 1..Len(scores[g][i]) |->
                IF dim = -1
                THEN Frac(scores[g][i][j], SumSeq(scores[g][i]))
                ELSE Frac(scores[g][i][j],
                          SumSeq([i2 \in 1..Len(scores[g]) |-> scores[g][i2][j]]))]]]

Mixers == {"Attention", "OverlappingShiftedRelativeAttention", "LePEAttention"}

\* The shape (groups, queries, keys) of the scores of a mixer on b samples
\* of an h x w map with the given heads: q @ k^T of Attention (n x n), q @ k
\* of OverlappingShiftedRelativeAttention (n queries against the keys left
\* by the reduction of ratio sr_ratio), q @ k^T of LePEAttention (one
\* h_sp * w_sp square per window).
ScoresShape(mixer, b, heads, h, w, sr_ratio, idx, split_size) ==
    IF mixer = "Attention" THEN Shaped(<<b * heads, h * w, h * w>>)
    ELSE IF mixer = "OverlappingShiftedRelativeAttention"
    THEN IF sr_ratio > 1
         THEN Shaped(<<b * heads, h * w,
                       ConvOut(h, sr_ratio + 3, sr_ratio, (sr_ratio + 3) \div 2)
                         * ConvOut(w, sr_ratio + 3, sr_ratio, (sr_ratio + 3) \div 2)>>)
         ELSE Shaped(<<b * heads, h * w, h * w>>)
    ELSE LET sp == LePE_get_split(idx, split_size, h, w)
         IN  IF ~sp.ok \/ ~LePEFits(b, heads, h, w, idx, split_size) THEN Raised
             ELSE Shaped(<<b * (h \div sp.h_sp) * (w \div sp.w_sp) * heads,
                           sp.h_sp * sp.w_sp, sp.h_sp * sp.w_sp>>)

---------------------------------------------------------------------------
(* Specification SpecAttn: the attention weights of one mixer call, with   *)
(* dropout inactive                                                        *)

InitAttn ==
    /\ pc = "scores"
    /\ impl = "layers"
    /\ \E mixer \in Mixers, b \in 1..MaxB, heads \in 1..MaxHeads, h \in 1..MaxWin,
          w \in 1..MaxWin, sr \in 1..2, idx \in {0, 1}, s \in 1..MaxWin :
          LET shape == ScoresShape(mixer, b, heads, h, w, sr, idx, s)
          IN  /\ shape.ok
              /\ shape.shape[1] * shape.shape[2] * shape.shape[3] <= MaxCells
              /\ \E scores \in [1..shape.shape[1] ->
                                   [1..shape.shape[2] -> [1..shape.shape[3] -> Weights]]] :
                    rec_in = [mixer |-> mixer, b |-> b, heads |-> heads, h |-> h, w |-> w,
                              sr_ratio |-> sr, idx |-> idx, split_size |-> s,
                              scores |-> scores]
    /\ rec_out = <<>>
    /\ WinIdle
    /\ AttnIdle
    /\ EncIdle
    /\ FwdIdle

\* attn = softmax(attn, dim=-1); attn = self.attn_drop(attn), the identity
\* when dropout is inactive
DoSoftmax ==
    /\ pc = "scores"
    /\ rec_out' = <<softmax(rec_in.scores, -1)>>
    /\ pc' = "weights"
    /\ UNCHANGED <<impl, rec_in, winVars, attnVars, encVars, fwdVars>>

NextAttn == DoSoftmax

SpecAttn == InitAttn /\ [][NextAttn]_vars

\* The sum of a sequence of fractions is 1
SumsToOne(row) ==
    LET D == Prod([k \in 1..Len(row) |-> row[k][2]])
    IN  SumSeq([k \in 1..Len(row) |-> row[k][1] * (D \div row[k][2])]) = D

\* C20: in each of the three mixers, for every batch element, head (and
\* window) and every query token, the weights over the keys after the
\* softmax are non-negative and sum to 1.
C20_RowsNormalized ==
    (pc = "weights") =>
        \A g \in 1..Len(rec_out[1]) :
            \A i \in 1..Len(rec_out[1][g]) :
                /\ \A j \in 1..Len(rec_out[1][g][i]) :
                      rec_out[1][g][i][j][1] >= 0 /\ rec_out[1][g][i][j][2] > 0
                /\ SumsToOne(rec_out[1][g][i])

\* The reduced-key mixer with two queries against one key: each query puts
\* all its weight on that key.
C20_Witness ==
    /\ pc = "weights"
    /\ rec_in.mixer = "OverlappingShiftedRelativeAttention"
    /\ Len(rec_out[1][1]) = 2
    /\ Len(rec_out[1][1][1]) = 1
    /\ rec_in.scores[1][1][1] # rec_in.scores[1][2][1]
    /\ rec_out[1][1][1][1] = <<1, 1>>


---------------------------------------------------------------------------
(* Specification SpecMergeShape: one call of PatchMerging.forward on a     *)
(* (b, h, w, c) map, in either copy of the code                            *)

InitMergeShape ==
    /\ pc = "merging"
    /\ impl \in Impls
    /\ \E b \in 1..MaxB, h \in 1..MaxSide, w \in 1..MaxSide, c \in Dims, o \in Dims :
          rec_in = [x |-> <<b, h, w, c>>, dim |-> c, out_dim |-> o]
    /\ rec_out = <<>>
    /\ WinIdle
    /\ AttnIdle
    /\ EncIdle
    /\ FwdIdle

CallPatchMerging ==
    /\ pc = "merging"
    /\ rec_out' = <<PatchMerging(rec_in.x, rec_in.dim, rec_in.out_dim)>>
    /\ pc' = IF rec_out'[1].ok THEN "merged" ELSE "raised"
    /\ UNCHANGED <<impl, rec_in, winVars, attnVars, encVars, fwdVars>>

NextMergeShape == CallPatchMerging

SpecMergeShape == InitMergeShape /\ [][NextMergeShape]_vars

---------------------------------------------------------------------------
(* Calls of the global (OSRA) block: how the arguments of the block reach  *)
(* the attention, and what the attention does with them                    *)

\* An argument value: kind "None", "size" (a tuple (h, w)) or "tensor" (val
\* is its shape); "required" marks a parameter without default.
Arg(kind, val) == [kind |-> kind, val |-> val]

NoneArg == Arg("None", <<>>)

Required == Arg("required", <<>>)

BindError == [ok |-> FALSE, args |-> <<>>]

\* Python's binding of a call to a signature: params is the sequence of
\* [name, default], pos the positional arguments, kw the keyword arguments.
\* TypeError for too many positionals, an unknown keyword, a parameter bound
\* twice, or a parameter without default left unbound.
Bind(params, pos, kw) ==
    LET names    == {params[i].name : i \in DOMAIN params}
        value(i) == IF i <= Len(pos) THEN pos[i]
                    ELSE IF params[i].name \in DOMAIN kw THEN kw[params[i].name]
                    ELSE params[i].default
    IN  IF Len(pos) > Len(params) THEN BindError
        ELSE IF \E k \in DOMAIN kw : k \notin names THEN BindError
        ELSE IF \E i \in 1..Len(pos) : params[i].name \in DOMAIN kw THEN BindError
        ELSE IF \E i \in DOMAIN params : value(i).kind = "required" THEN BindError
        ELSE [ok   |-> TRUE,
              args |-> [n \in names |->
                          value(CHOOSE i \in DOMAIN params : params[i].name = n)]]

\* def forward(self, x, size, relative_pos_enc=None) of OSRA_Attention and
\* of OverlappingShiftedRelativeAttention
AttentionParams ==
    <<[name |-> "x", default |-> Required],
      [name |-> "size", default |-> Required],
      [name |-> "relative_pos_enc", default |-> NoneArg]>>

\* def forward(self, x, relative_pos_enc=None) of OSRA_Block and of OSRABlock
BlockParams ==
    <<[name |-> "x", default |-> Required],
      [name |-> "relative_pos_enc", default |-> NoneArg]>>

OSRARaised ==
    [ok |-> FALSE, shape |-> <<>>, attn |-> <<>>, bias |-> FALSE,
     interpolated |-> FALSE, args |-> <<>>]

\* Keys kept along one axis of length n by self.sr: the identity for
\* sr_ratio 1, else a convolution of kernel sr_ratio + 3, stride sr_ratio,
\* padding (sr_ratio + 3) // 2 followed by one of kernel 1.
Reduced(n, sr_ratio) ==
    IF sr_ratio > 1
    THEN ConvOut(ConvOut(n, sr_ratio + 3, sr_ratio, (sr_ratio + 3) \div 2), 1, 1, 0)
    ELSE n

\* if relative_pos_enc is not None:
AddsBias(relative_pos_enc) == relative_pos_enc.kind # "None"

\* Mutant: the attention returns the reduced token count.
OSRATokens_reduced(nq, nk) == nk

\* attn @ v has one row per query
OSRATokens(nq, nk) == nq

\* The forward of the attention of the global block, on bound arguments a,
\* for a module built with dim, num_heads and sr_ratio.  h, w = size needs a
\* pair; reshape(b, -1, h, w) needs the element count to divide; the 1 x 1
\* convolutions need dim channels; the batch norm of self.sr refuses a
\* single value per channel in training mode; the positional term, when
\* given, is resampled to the shape of the scores if it differs and must
\* broadcast against them.
OSRA_forward(a, dim, num_heads, sr_ratio, training) ==
    IF a.size.kind # "size" \/ a.x.kind # "tensor" THEN OSRARaised
    ELSE
    LET x  == a.x.val
        h  == a.size.val[1]
        w  == a.size.val[2]
        kh == Reduced(h, sr_ratio)
        kw == Reduced(w, sr_ratio)
        hd == x[3] \div num_heads
    IN  IF (x[2] * x[3]) % (h * w) # 0 \/ (x[2] * x[3]) \div (h * w) # dim THEN OSRARaised
        ELSE IF kh < 1 \/ kw < 1 THEN OSRARaised
        ELSE IF sr_ratio > 1 /\ training /\ x[1] * kh * kw = 1 THEN OSRARaised
        ELSE IF hd < 1 \/ (dim * h * w) % (num_heads * hd) # 0
                       \/ (dim * kh * kw) % (num_heads * hd) # 0 THEN OSRARaised
        ELSE
        LET nq   == (dim * h * w) \div (num_heads * hd)
            nk   == (dim * kh * kw) \div (num_heads * hd)
            rpe  == a.relative_pos_enc
            bias == AddsBias(rpe)
        IN  IF bias /\ (rpe.kind # "tensor" \/ Len(rpe.val) # 4) THEN OSRARaised
            ELSE IF bias /\ (rpe.val[1] \notin {1, x[1]} \/ rpe.val[2] \notin {1, num_heads})
                 THEN OSRARaised
            ELSE IF (num_heads * OSRATokens(nq, nk) * hd) % x[3] # 0 THEN OSRARaised
            ELSE [ok           |-> TRUE,
                  shape        |-> <<x[1], (num_heads * OSRATokens(nq, nk) * hd) \div x[3], x[3]>>,
                  attn         |-> <<x[1], num_heads, nq, nk>>,
                  bias         |-> bias,
                  interpolated |-> bias /\ <<rpe.val[3], rpe.val[4]>> # <<nq, nk>>,
                  args         |-> a]

\* Mutant: the encoder's block hands its second argument to the attention
\* as the positional term as well.
TokenMixerCall_asbias(i, a) ==
    IF i = "layers"
    THEN Bind(AttentionParams, <<a.x>>,
              [k \in {"relative_pos_enc"} |-> a.relative_pos_enc])
    ELSE Bind(AttentionParams, <<a.x, a.relative_pos_enc>>,
              [k \in {"relative_pos_enc"} |-> Arg("tensor", <<1, 1, 1, 1>>)])

\* self.token_mixer(self.norm1(x), relative_pos_enc=relative_pos_enc) in the
\* layers module, self.token_mixer(self.norm1(x), relative_pos_enc) in the
\* encoder module
TokenMixerCall(i, a) ==
    IF i = "layers"
    THEN Bind(AttentionParams, <<a.x>>,
              [k \in {"relative_pos_enc"} |-> a.relative_pos_enc])
    ELSE Bind(AttentionParams, <<a.x, a.relative_pos_enc>>, <<>>)

\* The forward of the global block called with the positional arguments
\* pos: the token mixer on norm1(x), added to x, then the MLP on norm2 of
\* the sum, added to it.
OSRABlock_forward(i, pos, dim, num_heads, sr_ratio, training) ==
    LET b == Bind(BlockParams, pos, <<>>)
    IN  IF ~b.ok THEN OSRARaised
        ELSE IF b.args.x.kind # "tensor" \/ b.args.x.val[3] # dim THEN OSRARaised
        ELSE LET m == TokenMixerCall(i, b.args)
             IN  IF ~m.ok THEN OSRARaised
                 ELSE LET r == OSRA_forward(m.args, dim, num_heads, sr_ratio, training)
                      IN  IF ~r.ok THEN OSRARaised
                          ELSE IF r.shape # b.args.x.val THEN OSRARaised
                          ELSE r

(* Specification SpecOSRABlock: one direct call of the global block of     *)
(* either module on (b, h * w, c) tokens, with or without a second         *)
(* argument: a positional term in the layers module, the map size in the   *)
(* encoder module (which hands the block the size in that position)        *)

MaxSr == 4

SrRatios == 1..MaxSr

InitOSRABlock ==
    /\ pc = "block"
    /\ impl \in Impls
    /\ \E b \in 1..MaxB, h \in 1..MaxSide, w \in 1..MaxSide, heads \in 1..MaxHeads,
          sr \in SrRatios, training \in BOOLEAN, given \in BOOLEAN :
          LET x      == Arg("tensor", <<b, h * w, MaxHeads>>)
              second == IF impl = "layers"
                        THEN Arg("tensor", <<1, heads, h * w,
                                             Reduced(h, sr) * Reduced(w, sr)>>)
                        ELSE Arg("size", <<h, w>>)
          IN  rec_in = [pos      |-> IF given THEN <<x, second>> ELSE <<x>>,
                        size     |-> <<h, w>>,
                        dim      |-> MaxHeads,
                        heads    |-> heads,
                        sr_ratio |-> sr,
                        training |-> training]
    /\ rec_out = <<>>
    /\ WinIdle
    /\ AttnIdle
    /\ EncIdle
    /\ FwdIdle

CallOSRABlock ==
    /\ pc = "block"
    /\ rec_out' = <<OSRABlock_forward(impl, rec_in.pos, rec_in.dim, rec_in.heads,
                                      rec_in.sr_ratio, rec_in.training)>>
    /\ pc' = IF rec_out'[1].ok THEN "mixed" ELSE "raised"
    /\ UNCHANGED <<impl, rec_in, winVars, attnVars, encVars, fwdVars>>

NextOSRABlock == CallOSRABlock

SpecOSRABlock == InitOSRABlock /\ [][NextOSRABlock]_vars

\* C22 as stated: OSRABlock.forward of the layers module, called on x of
\* shape (b, n, c) with or without relative_pos_enc, completes without
\* error and returns a tensor of shape (b, n, c).
C22_LayersBlockCompletes ==
    (pc # "block" /\ impl = "layers") =>
        /\ rec_out[1].ok
        /\ rec_out[1].shape = rec_in.pos[1].val


---------------------------------------------------------------------------
(* Specification SpecLayout: the window and head layouts of one            *)
(* LePEAttention.forward.  Q, K and V are the same tensor of atoms, so the *)
(* layouts can be compared entry by entry; the restore step is the forward *)
(* with the identity for attention matrix and a zero LePE term.            *)

InitLayout ==
    /\ pc = "layout"
    /\ impl \in Impls
    /\ \E b \in 1..MaxB, h \in 1..MaxWin, w \in 1..MaxWin, idx \in Idxs,
          s \in 1..MaxWin, m \in 1..MaxHeads, d \in 1..MaxHeadDim :
          attn_cfg = [b |-> b, h |-> h, w |-> w, idx |-> idx, split_size |-> s,
                      num_heads |-> m, dim |-> m * d]
    /\ attn_out = NoTensor
    /\ WinIdle
    /\ EncIdle
    /\ FwdIdle
    /\ RecIdle

\* q = self.im2cswin(q); v, lepe = self.get_lepe(v, ...)
DoSplit ==
    /\ pc = "layout"
    /\ LET x  == Atoms(attn_cfg.b, attn_cfg.h * attn_cfg.w, attn_cfg.dim)
           qw == im2cswin(impl, x, attn_cfg)
           vl == get_lepe(impl, x, attn_cfg)
       IN  /\ rec_out' = <<qw, vl.x, vl.lepe>>
           /\ pc' = IF GetSplit(impl, attn_cfg).ok /\ qw.ok /\ vl.x.ok /\ vl.lepe.ok
                    THEN "split" ELSE "raised"
    /\ UNCHANGED <<impl, rec_in, attn_cfg, attn_out, winVars, encVars, fwdVars>>

\* x = attn @ v + lepe with attn the identity and lepe zero, then the end of
\* forward; the shape of the actual forward is recorded next to it.
DoRestore ==
    /\ pc = "split"
    /\ attn_out' = RestoreLayout(impl, rec_out[2], attn_cfg.b, attn_cfg)
    /\ LET x == Atoms(attn_cfg.b, attn_cfg.h * attn_cfg.w, attn_cfg.dim)
       IN  rec_out' = Append(rec_out, LePEForward(impl, x, x, x, attn_cfg))
    /\ pc' = IF attn_out'.ok THEN "restored" ELSE "raised"
    /\ UNCHANGED <<impl, rec_in, attn_cfg, winVars, encVars, fwdVars>>

NextLayout == DoSplit \/ DoRestore

SpecLayout == InitLayout /\ [][NextLayout]_vars

\* The split of the mixer is valid: idx selects a window and the window
\* divides the map.
ValidSplit ==
    LET sp == GetSplit(impl, attn_cfg)
    IN  /\ attn_cfg.idx \in {-1, 0, 1}
        /\ sp.h_sp >= 1 /\ sp.w_sp >= 1
        /\ attn_cfg.h % sp.h_sp = 0
        /\ attn_cfg.w % sp.w_sp = 0

\* C23: for idx in {-1, 0, 1} and every valid split size,
\* LePEAttention.forward returns shape (b, h*w, c), and the head merge
\* followed by windows2img undoes the window/head split of V exactly: with
\* the identity for attention matrix and a zero LePE term the output equals
\* V element for element.
C23_LayoutRestored ==
    /\ (pc = "restored" =>
          /\ attn_out = Atoms(attn_cfg.b, attn_cfg.h * attn_cfg.w, attn_cfg.dim)
          /\ rec_out[4].ok
          /\ rec_out[4].shape = <<attn_cfg.b, attn_cfg.h * attn_cfg.w, attn_cfg.dim>>)
    /\ (pc = "raised" => ~ValidSplit)
    /\ (pc \in {"split", "restored"} => ValidSplit)

\* A map of 2 x 3 tokens with two heads of two channels, cut into three
\* vertical strips, is restored.
C23_Witness ==
    /\ pc = "restored"
    /\ attn_cfg.b = 2 /\ attn_cfg.idx = 0 /\ attn_cfg.h = 2 /\ attn_cfg.w = 3
    /\ attn_cfg.split_size = 1 /\ attn_cfg.num_heads = 2 /\ attn_cfg.dim = 4
    /\ attn_out.ok


\* The input element expected at flat position p (0-based) of a
\* (b', num_heads, h_sp * w_sp, c // num_heads) window layout: channel d of
\* head m of the token at (i, j) of its sample.
LayoutAtom(p, cfg, sp) ==
    LET hd     == cfg.dim \div cfg.num_heads
        nwin   == sp.h_sp * sp.w_sp
        d      == p % hd
        t      == (p \div hd) % nwin
        m      == (p \div (hd * nwin)) % cfg.num_heads
        win    == p \div (hd * nwin * cfg.num_heads)
        cols   == cfg.w \div sp.w_sp
        rows   == cfg.h \div sp.h_sp
        wc     == win % cols
        wr     == (win \div cols) % rows
        sample == win \div (cols * rows)
        i      == wr * sp.h_sp + (t \div sp.w_sp)
        j      == wc * sp.w_sp + (t % sp.w_sp)
    IN  ((sample * cfg.h + i) * cfg.w + j) * cfg.dim + m * hd + d

\* C26: for every idx and valid split size, im2cswin (Q, K) and get_lepe (V
\* and the LePE term) use the same layout: the entry at (window, head,
\* token-in-window, channel) is the value of the same token, head and
\* head-channel in both, and the LePE entry there is computed around that
\* same value.
C26_LayoutsAgree ==
    pc \in {"split", "restored"} =>
        LET sp == GetSplit(impl, attn_cfg)
        IN  /\ rec_out[1] = rec_out[2]
            /\ rec_out[3].shape = rec_out[2].shape
            /\ rec_out[2].shape = <<attn_cfg.b * (attn_cfg.h \div sp.h_sp) * (attn_cfg.w \div sp.w_sp),
                                    attn_cfg.num_heads, sp.h_sp * sp.w_sp,
                                    attn_cfg.dim \div attn_cfg.num_heads>>
            /\ \A p \in 1..Len(rec_out[2].data) :
                  /\ rec_out[1].data[p] = {LayoutAtom(p - 1, attn_cfg, sp)}
                  /\ rec_out[2].data[p] = {LayoutAtom(p - 1, attn_cfg, sp)}
                  /\ LayoutAtom(p - 1, attn_cfg, sp) \in rec_out[3].data[p]
                  /\ \A e \in rec_out[3].data[p] :
                        /\ e % attn_cfg.dim = LayoutAtom(p - 1, attn_cfg, sp) % attn_cfg.dim
                        /\ WindowOf(e, attn_cfg, sp)
                             = WindowOf(LayoutAtom(p - 1, attn_cfg, sp), attn_cfg, sp)

\* Two samples of a 3 x 2 map with two heads of two channels, cut into
\* horizontal strips of one row.
C26_Witness ==
    /\ pc = "split"
    /\ attn_cfg.b = 2 /\ attn_cfg.idx = 1 /\ attn_cfg.h = 3 /\ attn_cfg.w = 2
    /\ attn_cfg.split_size = 1 /\ attn_cfg.num_heads = 2 /\ attn_cfg.dim = 4
    /\ Len(rec_out[1].data) = 48
    /\ Cardinality(rec_out[3].data[1]) = 2


---------------------------------------------------------------------------
(* Specification SpecOrder: LePEAttention.forward statement by statement.  *)
(* calls lists the operations done so far, err names the exception raised. *)

InitOrder ==
    /\ pc = "forward"
    /\ impl \in Impls
    /\ \E b \in 1..MaxB, h \in 1..MaxWin, w \in 1..MaxWin, idx \in Idxs,
          s \in 1..MaxWin, m \in 1..MaxHeads, d \in 1..MaxHeadDim :
          attn_cfg = [b |-> b, h |-> h, w |-> w, idx |-> idx, split_size |-> s,
                      num_heads |-> m, dim |-> m * d]
    /\ attn_out = NoTensor
    /\ WinIdle
    /\ EncIdle
    /\ FwdIdle
    /\ RecIdle

\* h_sp, w_sp = self._get_split(size) in the layers module; the if / elif
\* chain of the encoder module, which binds nothing for another idx.
DoGetSplit ==
    /\ pc = "forward"
    /\ LET sp == GetSplit(impl, attn_cfg)
       IN  /\ calls' = Append(calls, IF impl = "layers" THEN "_get_split" ELSE "if_chain")
           /\ h_sp' = IF sp.ok THEN sp.h_sp ELSE h_sp
           /\ w_sp' = IF sp.ok THEN sp.w_sp ELSE w_sp
           /\ err' = IF impl = "layers" /\ ~sp.ok THEN "ValueError" ELSE err
           /\ pc' = IF impl = "layers" /\ ~sp.ok THEN "raised" ELSE "im2cswin_q"
    /\ UNCHANGED <<impl, img, height, width, windows, merged, attnVars, encVars,
                   fwd, out, recVars>>

\* self.im2cswin on q (then on k): the view to (b, c, h, w), the split, the
\* windows, the reshape to heads
Im2cswinStep(from, to) ==
    /\ pc = from
    /\ LET sp == GetSplit(impl, attn_cfg)
           x  == Atoms(attn_cfg.b, attn_cfg.h * attn_cfg.w, attn_cfg.dim)
       IN  IF ~sp.ok
           THEN /\ calls' = calls \o <<"view">>
                /\ err' = "UnboundLocalError"
                /\ pc' = "raised"
           ELSE IF ~im2cswin(impl, x, attn_cfg).ok
           THEN /\ calls' = calls \o <<"view", "img2windows">>
                /\ err' = "RuntimeError"
                /\ pc' = "raised"
           ELSE /\ calls' = calls \o <<"view", "img2windows", "reshape">>
                /\ err' = err
                /\ pc' = to
    /\ UNCHANGED <<impl, winVars, attnVars, encVars, fwd, out, recVars>>

DoIm2cswinQ == Im2cswinStep("im2cswin_q", "im2cswin_k")

DoIm2cswinK == Im2cswinStep("im2cswin_k", "get_lepe")

\* v, lepe = self.get_lepe(v, size)
DoGetLepe ==
    /\ pc = "get_lepe"
    /\ LET x  == Atoms(attn_cfg.b, attn_cfg.h * attn_cfg.w, attn_cfg.dim)
           vl == get_lepe(impl, x, attn_cfg)
       IN  IF vl.x.ok /\ vl.lepe.ok
           THEN /\ calls' = calls \o <<"view", "get_v", "reshape">>
                /\ err' = err
                /\ pc' = "attention"
           ELSE /\ calls' = calls \o <<"view">>
                /\ err' = "RuntimeError"
                /\ pc' = "raised"
    /\ UNCHANGED <<impl, winVars, attnVars, encVars, fwd, out, recVars>>

\* attn = softmax(q @ k^T); x = attn @ v + lepe; windows2img
DoAttention ==
    /\ pc = "attention"
    /\ LET x == Atoms(attn_cfg.b, attn_cfg.h * attn_cfg.w, attn_cfg.dim)
       IN  attn_out' = LePEForward(impl, x, x, x, attn_cfg)
    /\ calls' = calls \o <<"attention", "windows2img">>
    /\ pc' = IF attn_out'.ok THEN "done" ELSE "raised"
    /\ UNCHANGED <<impl, winVars, attn_cfg, encVars, fwd, out, err, recVars>>

NextOrder == DoGetSplit \/ DoIm2cswinQ \/ DoIm2cswinK \/ DoGetLepe \/ DoAttention

SpecOrder == InitOrder /\ [][NextOrder]_vars

\* C24: in the layers module, _get_split on a map (h, w) returns
\* (h, split_size) for idx 0, (split_size, w) for idx 1 and (h, w) for idx
\* -1, and raises ValueError for every other idx; forward raises it before
\* any tensor is reshaped and before any attention is computed.
C24_SplitThenWork ==
    (impl = "layers" /\ pc # "forward") =>
        /\ (attn_cfg.idx = 0 => <<h_sp, w_sp>> = <<attn_cfg.h, attn_cfg.split_size>>)
        /\ (attn_cfg.idx = 1 => <<h_sp, w_sp>> = <<attn_cfg.split_size, attn_cfg.w>>)
        /\ (attn_cfg.idx = -1 => <<h_sp, w_sp>> = <<attn_cfg.h, attn_cfg.w>>)
        /\ (attn_cfg.idx \in {-1, 0, 1} => err # "ValueError")
        /\ (attn_cfg.idx \notin {-1, 0, 1} =>
               /\ pc = "raised"
               /\ err = "ValueError"
               /\ calls = <<"_get_split">>)
        /\ calls[1] = "_get_split"

\* idx 2 in the layers module: the call has raised after _get_split alone.
C24_Witness ==
    /\ impl = "layers"
    /\ attn_cfg.idx = 2
    /\ pc = "raised"
    /\ err = "ValueError"
    /\ calls = <<"_get_split">>


---------------------------------------------------------------------------
(* Specification SpecOSRA: one call of the forward of the attention of the *)
(* global block, of either module, on (b, h * w, c) tokens with their size *)

InitOSRA ==
    /\ pc = "attention"
    /\ impl \in Impls
    /\ \E b \in 1..MaxB, h \in 1..MaxSide, w \in 1..MaxSide, heads \in 1..MaxHeads,
          hd \in 1..MaxHeadDim, sr \in SrRatios, training \in BOOLEAN :
          rec_in = [pos      |-> <<Arg("tensor", <<b, h * w, heads * hd>>),
                                   Arg("size", <<h, w>>)>>,
                    size     |-> <<h, w>>,
                    dim      |-> heads * hd,
                    heads    |-> heads,
                    sr_ratio |-> sr,
                    training |-> training]
    /\ rec_out = <<>>
    /\ WinIdle
    /\ AttnIdle
    /\ EncIdle
    /\ FwdIdle

CallAttention ==
    /\ pc = "attention"
    /\ LET b == Bind(AttentionParams, rec_in.pos, <<>>)
       IN  rec_out' = <<IF b.ok
                        THEN OSRA_forward(b.args, rec_in.dim, rec_in.heads,
                                          rec_in.sr_ratio, rec_in.training)
                        ELSE OSRARaised>>
    /\ pc' = IF rec_out'[1].ok THEN "attended" ELSE "raised"
    /\ UNCHANGED <<impl, rec_in, winVars, attnVars, encVars, fwdVars>>

NextOSRA == CallAttention

SpecOSRA == InitOSRA /\ [][NextOSRA]_vars

CeilDiv(n, r) == (n + r - 1) \div r

\* The shapes C25 states for the call in rec_in: output (b, h*w, c), scores
\* with h*w rows and h'*w' columns, (h', w') = (h, w) for sr_ratio 1 and
\* (ceil(h/r), ceil(w/r)) for an even sr_ratio r > 1.
StatedShapes ==
    LET x == rec_in.pos[1].val
        h == rec_in.size[1]
        w == rec_in.size[2]
        r == rec_in.sr_ratio
    IN  /\ rec_out[1].ok
        /\ rec_out[1].shape = x
        /\ rec_out[1].attn[3] = h * w
        /\ (r = 1 => rec_out[1].attn[4] = h * w)
        /\ (r > 1 /\ r % 2 = 0 => rec_out[1].attn[4] = CeilDiv(h, r) * CeilDiv(w, r))

\* The reduction leaves one value per channel for the batch norm of self.sr
\* in training mode.
SingleValuePerChannel ==
    /\ rec_in.training
    /\ rec_in.sr_ratio > 1
    /\ rec_in.pos[1].val[1] * CeilDiv(rec_in.size[1], rec_in.sr_ratio)
                            * CeilDiv(rec_in.size[2], rec_in.sr_ratio) = 1

\* C25 as stated: for every (h, w), every sr_ratio >= 1 and input
\* (b, h*w, c) the forward returns (b, h*w, c) and the scores have h*w rows
\* and h'*w' columns.
C25_EveryCallShaped == (pc # "attention") => StatedShapes

\* C25 amended: the stated shapes hold for every (h, w), sr_ratio >= 1 and
\* input (b, h*w, c) unless the module is in training mode with
\* sr_ratio > 1 and b * h' * w' = 1; in that case, for an even sr_ratio, the
\* batch norm of the reduction raises and nothing is returned.
C25_ShapedUnlessSingleValue ==
    (pc # "attention") =>
        /\ (~SingleValuePerChannel => StatedShapes)
        /\ (SingleValuePerChannel /\ rec_in.sr_ratio % 2 = 0 => ~rec_out[1].ok)

\* A 3 x 4 map reduced with ratio 2: 12 queries against 2 * 2 keys.
C25_Witness ==
    /\ pc = "attended"
    /\ rec_in.size = <<3, 4>>
    /\ rec_in.sr_ratio = 2
    /\ rec_in.training
    /\ rec_out[1].attn = <<rec_in.pos[1].val[1], rec_in.heads, 12, 4>>
    /\ rec_out[1].shape = <<rec_in.pos[1].val[1], 12, rec_in.dim>>


---------------------------------------------------------------------------
(* A BasicLayer of the encoder built with any mixer tag, and its forward   *)

KnownMixers == {"Local1", "Global2", "LG1"}

MixerTypes == KnownMixers \cup {"Global", "Local", ""}

LayerError ==
    [ok |-> FALSE, mixer_type |-> "", depth |-> 0, embed_dim |-> 0, out_dim |-> 0,
     downsample |-> FALSE, split_size |-> 0, sr_ratio |-> 0,
     blocks |-> 0, local_unit |-> 0, global_unit |-> 0]

\* Mutant: a tag that is not recognised gets the blocks of "Global2".
OwnedBlocks_default(mixer_type, depth) ==
    IF mixer_type = "LG1" THEN [blocks |-> 0, local_unit |-> depth, global_unit |-> depth]
    ELSE [blocks |-> depth, local_unit |-> 0, global_unit |-> 0]

\* The module lists BasicLayer.__init__ creates: self.blocks for "Local1"
\* and "Global2", self.local_unit and self.global_unit for "LG1", nothing
\* for any other tag (the if / elif chain has no else).
OwnedBlocks(mixer_type, depth) ==
    IF mixer_type \in {"Local1", "Global2"}
    THEN [blocks |-> depth, local_unit |-> 0, global_unit |-> 0]
    ELSE IF mixer_type = "LG1"
    THEN [blocks |-> 0, local_unit |-> depth, global_unit |-> depth]
    ELSE [blocks |-> 0, local_unit |-> 0, global_unit |-> 0]

\* BasicLayer.__init__ with arguments a.  An OSRA_Block of the "LG1" branch
\* gets num_heads // 2 heads and asserts dim % num_heads == 0, which raises
\* ZeroDivisionError for no head; the downsample is built last.
BasicLayerNew(a) ==
    LET own == OwnedBlocks(a.mixer_type, a.depth)
        ds  == BasicLayerInit(a.embed_dim, a.out_dim, a.downsample)
    IN  IF own.global_unit > 0 /\ a.num_heads \div 2 = 0 THEN LayerError
        ELSE IF ~ds.ok THEN LayerError
        ELSE [ok |-> TRUE, mixer_type |-> a.mixer_type, depth |-> a.depth,
              embed_dim |-> a.embed_dim, out_dim |-> a.out_dim,
              downsample |-> a.downsample, split_size |-> a.split_size,
              sr_ratio |-> a.sr_ratio,
              blocks |-> own.blocks, local_unit |-> own.local_unit,
              global_unit |-> own.global_unit]

ForwardError == [ok |-> FALSE, shape |-> <<>>, applied |-> 0, downsampled |-> FALSE]

\* BasicLayer.forward of layer l on x of shape (b, h, w, d): the loop over
\* the blocks of the branch of l.mixer_type (no branch for another tag),
\* then self.downsample when it is not None.  applied counts the blocks
\* that x went through.
BasicLayerForward(l, x, size) ==
    LET tokens == <<x[1], x[2] * x[3], x[4]>>
        half   == <<x[1], x[2] * x[3], x[4] \div 2>>
        mixed  == IF l.mixer_type = "Local1" /\ l.blocks > 0
                  THEN CSWinBlock(tokens, size, l.split_size)
                  ELSE IF l.mixer_type = "Global2" /\ l.blocks > 0
                  THEN MHSA_Block(tokens, size)
                  ELSE IF l.mixer_type = "LG1" /\ l.local_unit > 0
                  THEN IF /\ CSWinBlock(half, size, l.split_size).ok
                          /\ OSRA_Block(half, size, l.sr_ratio).ok
                       THEN Shaped(tokens) ELSE Raised
                  ELSE Shaped(tokens)
        applied == IF l.mixer_type = "LG1" THEN l.local_unit + l.global_unit
                   ELSE IF l.mixer_type \in {"Local1", "Global2"} THEN l.blocks
                   ELSE 0
    IN  IF ~mixed.ok THEN ForwardError
        ELSE IF l.downsample
        THEN LET d == PatchMerging(x, l.embed_dim, l.out_dim)
             IN  IF d.ok THEN [ok |-> TRUE, shape |-> d.shape, applied |-> applied,
                               downsampled |-> TRUE]
                 ELSE ForwardError
        ELSE [ok |-> TRUE, shape |-> x, applied |-> applied, downsampled |-> FALSE]

MaxDepth == 2

(* Specification SpecLayer: a BasicLayer is built, then called once on a   *)
(* (b, h, w, embed_dim) map with its size                                  *)

InitLayer ==
    /\ pc = "new"
    /\ impl = "vip"
    /\ \E m \in MixerTypes, depth \in 0..MaxDepth, d \in Dims, o \in Dims \cup {None},
          ds \in BOOLEAN, heads \in 1..MaxHeads, sp \in 1..2, sr \in {1, 2},
          b \in 1..MaxB, h \in 1..2, w \in 1..MaxSide :
          rec_in = [mixer_type |-> m, depth |-> depth, embed_dim |-> d, out_dim |-> o,
                    downsample |-> ds, num_heads |-> heads, split_size |-> sp,
                    sr_ratio |-> sr, x |-> <<b, h, w, d>>]
    /\ rec_out = <<>>
    /\ WinIdle
    /\ AttnIdle
    /\ EncIdle
    /\ FwdIdle

NewLayer ==
    /\ pc = "new"
    /\ rec_out' = <<BasicLayerNew(rec_in)>>
    /\ pc' = IF rec_out'[1].ok THEN "built" ELSE "raised"
    /\ UNCHANGED <<impl, rec_in, winVars, attnVars, encVars, fwdVars>>

CallLayer ==
    /\ pc = "built"
    /\ rec_out' = Append(rec_out,
                         BasicLayerForward(rec_out[1], rec_in.x, <<rec_in.x[2], rec_in.x[3]>>))
    /\ pc' = IF rec_out'[2].ok THEN "returned" ELSE "raised"
    /\ UNCHANGED <<impl, rec_in, winVars, attnVars, encVars, fwdVars>>

NextLayer == NewLayer \/ CallLayer

SpecLayer == InitLayer /\ [][NextLayer]_vars

\* C27: a BasicLayer built with a mixer_type other than "Local1", "Global2"
\* or "LG1" (the default "Global" included) owns no mixing blocks; the tag
\* raises nothing, neither at construction nor at the call (the only error
\* left is the one of a downsample built with out_dim None); its forward
\* returns the input unchanged when downsample is None and only the
\* downsampled input otherwise.
C27_UnknownMixerIsIdentity ==
    (rec_in.mixer_type \notin KnownMixers /\ pc # "new") =>
        /\ (pc = "raised" <=> (rec_in.downsample /\ rec_in.out_dim = None))
        /\ (rec_out[1].ok =>
               rec_out[1].blocks = 0 /\ rec_out[1].local_unit = 0
                                     /\ rec_out[1].global_unit = 0)
        /\ (pc = "returned" =>
               /\ rec_out[2].applied = 0
               /\ (~rec_in.downsample =>
                      rec_out[2].shape = rec_in.x /\ ~rec_out[2].downsampled)
               /\ (rec_in.downsample =>
                      /\ rec_out[2].downsampled
                      /\ rec_out[2].shape
                           = PatchMerging(rec_in.x, rec_in.embed_dim, rec_in.out_dim).shape))

\* The default tag "Global" with depth 2 and no downsample: the call
\* returned its input.
C27_Witness ==
    /\ pc = "returned"
    /\ rec_in.mixer_type = "Global"
    /\ rec_in.depth = 2
    /\ ~rec_in.downsample
    /\ rec_out[2].shape = rec_in.x
    /\ rec_out[2].applied = 0


---------------------------------------------------------------------------
(* Specification SpecSlice: the targets of one training forward:           *)
(* build_target, then the slice to max(seq_len) + 1 columns                *)

\* gt = gt[:, : (int(seq_len.max().item()) + 1)]
DoSlice ==
    /\ pc = "target_built"
    /\ rec_out' = Append(rec_out, SliceTargets(rec_out[1].encoded, rec_out[1].seq_len))
    /\ pc' = "sliced"
    /\ UNCHANGED <<impl, rec_in, winVars, attnVars, encVars, fwdVars>>

NextSlice == CallBuildTarget \/ DoSlice

SpecSlice == InitTarget /\ [][NextSlice]_vars

\* C28: after the slice of the encoded targets to their first
\* max(seq_len) + 1 columns, the first seq_len[i] entries of row i are the
\* encoded characters of label i (values in 1..V) and every remaining entry
\* is 0, also when the longest label has exactly max_length characters.
C28_SliceKeepsLabels ==
    pc = "sliced" =>
        LET gt      == rec_out[2]
            seq_len == rec_out[1].seq_len
        IN  /\ Len(gt) = Len(rec_in.gts)
            /\ \A i \in 1..Len(gt) :
                  /\ seq_len[i] = Len(rec_in.gts[i])
                  /\ Len(gt[i]) >= seq_len[i]
                  /\ \A j \in 1..Len(gt[i]) :
                        IF j <= seq_len[i]
                        THEN /\ gt[i][j] \in 1..Len(rec_in.vocab)
                             /\ rec_in.vocab[gt[i][j]] = rec_in.gts[i][j]
                        ELSE gt[i][j] = 0

\* The longest label has exactly max_length = 2 characters, next to a
\* shorter one: the slice keeps both columns.
C28_Witness ==
    /\ pc = "sliced"
    /\ rec_in.max_length = 2
    /\ rec_in.gts = << <<"b", "a">>, <<"a">> >>
    /\ rec_out[2] = << <<2, 1>>, <<1, 0>> >>

---------------------------------------------------------------------------
(* Specification SpecMixed: BasicLayer.forward of a mixed ("LG1") stage of *)
(* the encoder, one turn of its loop at a time.  rec_out lists what each   *)
(* call of OSRA_Attention.forward received and did.                        *)

InitMixed ==
    /\ pc = "stage"
    /\ impl = "vip"
    /\ \E b \in 1..MaxB, h \in 1..MaxSide, w \in 1..MaxSide, d \in Dims,
          heads \in {2, 4}, sp \in 1..2, sr \in {1, 2}, training \in BOOLEAN :
          rec_in = [x |-> <<b, h, w, d>>, size |-> <<h, w>>, embed_dim |-> d,
                    out_dim |-> d, num_heads |-> heads, split_size |-> sp,
                    sr_ratio |-> sr, depth |-> VIPTRv2.depths[2],
                    training |-> training]
    /\ rec_out = <<>>
    /\ WinIdle
    /\ AttnIdle
    /\ EncIdle
    /\ FwdIdle

\* One turn of for lblk, gblk in zip(self.local_unit, self.global_unit):
\* x1 = lblk(x1, size); x2 = gblk(x2, size); x = self.proj(cat) + cat.  The
\* batch norms of self.proj refuse a single value per channel in training
\* mode.
DoMixedBlock ==
    /\ pc = "stage"
    /\ Len(rec_out) < rec_in.depth
    /\ LET x     == rec_in.x
           half  == <<x[1], x[2] * x[3], x[4] \div 2>>
           local == CSWinBlock(half, rec_in.size, rec_in.split_size)
           r     == OSRABlock_forward(impl, <<Arg("tensor", half), Arg("size", rec_in.size)>>,
                                      rec_in.embed_dim \div 2, rec_in.num_heads \div 2,
                                      rec_in.sr_ratio, rec_in.training)
       IN  IF ~local.ok \/ ~r.ok \/ (rec_in.training /\ x[1] * x[2] * x[3] = 1)
           THEN pc' = "raised" /\ rec_out' = rec_out
           ELSE pc' = "stage" /\ rec_out' = Append(rec_out, r)
    /\ UNCHANGED <<impl, rec_in, winVars, attnVars, encVars, fwdVars>>

\* if self.downsample is not None: x = self.downsample(x); return x
DoDownsample ==
    /\ pc = "stage"
    /\ Len(rec_out) = rec_in.depth
    /\ enc_x' = PatchMerging(rec_in.x, rec_in.embed_dim, rec_in.out_dim).shape
    /\ pc' = "done"
    /\ UNCHANGED <<impl, recVars, winVars, attnVars, enc_in, enc_size, enc_stage,
                   enc_sizes, fwdVars>>

NextMixed == DoMixedBlock \/ DoDownsample

SpecMixed == InitMixed /\ [][NextMixed]_vars

\* The stage's inputs fit: the strips of the local block divide the map and
\* no batch norm sees a single value per channel in training mode.
MixedFits ==
    LET x == rec_in.x
    IN  /\ CSWinBlock(<<x[1], x[2] * x[3], x[4] \div 2>>, rec_in.size, rec_in.split_size).ok
        /\ ~(rec_in.training /\ x[1] * x[2] * x[3] = 1)
        /\ ~(/\ rec_in.training /\ rec_in.sr_ratio > 1
             /\ x[1] * Reduced(x[2], rec_in.sr_ratio) * Reduced(x[3], rec_in.sr_ratio) = 1)

\* C30: in the mixed stage the (h, w) that BasicLayer.forward passes to the
\* global block reaches OSRA_Attention.forward as its size (through the
\* block's second positional parameter), OSRA_Attention's relative_pos_enc
\* is None on every call, no positional bias is added to the scores and
\* nothing is resampled; the calls complete.
C30_SizeNotBias ==
    /\ \A k \in 1..Len(rec_out) :
          /\ rec_out[k].ok
          /\ rec_out[k].args.size = Arg("size", rec_in.size)
          /\ rec_out[k].args.relative_pos_enc = NoneArg
          /\ ~rec_out[k].bias
          /\ ~rec_out[k].interpolated
          /\ rec_out[k].shape = <<rec_in.x[1], rec_in.x[2] * rec_in.x[3], rec_in.x[4] \div 2>>
    /\ (pc = "raised" => ~MixedFits)
    /\ (pc = "done" => Len(rec_out) = rec_in.depth)

\* All three turns of the loop ran on a 2 x 4 map with key reduction 2.
C30_Witness ==
    /\ pc = "done"
    /\ rec_in.size = <<2, 4>>
    /\ rec_in.sr_ratio = 2
    /\ Len(rec_out) = 3
    /\ rec_out[3].args.size.val = <<2, 4>>
    /\ rec_out[3].args.relative_pos_enc.kind = "None"

====
